---------------------------- MODULE Spec2Model ----------------------------
(***************************************************************************)
(* Verification model of the bytecode resynthesis engine of                *)
(* paddle-symbolic-trace (sot/opcode_translator/executor):                 *)
(*   - stacksize: the work-queue stack-depth analysis,                     *)
(*   - assemble and the three line-table encoders,                         *)
(*   - PyCodeGen: the stateful code-generation facade.                     *)
(* Each part has its own specification over the shared variables; the      *)
(* variables of the other parts stay at their idle values.                 *)
(***************************************************************************)
EXTENDS Integers, Sequences, FiniteSets, TLC

VARIABLES
    version,          \* sys.version_info: 38, 310 or 311
    \* ---- stacksize(instructions) ----
    ss_instructions,  \* the argument: records [opname, jump_to (index, 0 = none)]
    max_stack,        \* max_stack[i]: recorded entry depth, NegInf when unset
    queue,            \* the work queue of instruction indexes
    visits,           \* visits[i]: how often index i was taken off the queue
    ss_pc,            \* "idle", "run" (in the while loop), "done" (returned)
    ss_result,        \* the returned value
    \* ---- assemble(instructions, firstlineno) ----
    asm_instructions, \* the argument: records [opname, arg, starts_line]
    firstlineno,      \* the argument
    asm_i,            \* the instruction the for loop handles next (1-based)
    code,             \* the bytes emitted so far
    linetable,        \* the line-table bytes emitted so far
    cur_lineno,       \* create_linetable_calculator's closure variables
    cur_bytecode,
    line_offset,
    asm_pc,           \* "idle", "loop", "done" (returned)
    \* ---- PyCodeGen ----
    origin_code,      \* self._origin_code: the tables and instructions of frame.f_code
    code_options,     \* self._code_options
    instructions,     \* self._instructions: records [id, opname, arg, argval, jump_to]
    f_globals,        \* self._f_globals: the names bound in frame.f_globals
    resume_counter,   \* ResumeFnNameFactory().counter (process-wide singleton)
    next_id,          \* the identity the next created Instruction object gets
    finalized,        \* gen_pycode has run on this facade
    ret,              \* the last call on the facade and what it returned or raised
    fc_pc,            \* "idle", "accumulating", "returned", "raised"
    \* ---- trackers ----
    trackers,         \* the tracker graph: records [kind, inputs, name], inputs by position
    tr_ret,           \* the last call on the newest tracker and what it returned or raised
    \* ---- _encode_svarint(num) ----
    svarint_num,      \* the argument
    svarint_bytes     \* the bytes yielded, <<>> before the call

ssVars == <<ss_instructions, max_stack, queue, visits, ss_pc, ss_result>>

asmVars == <<asm_instructions, firstlineno, asm_i, code, linetable,
             cur_lineno, cur_bytecode, line_offset, asm_pc>>

facVars == <<origin_code, code_options, instructions, f_globals, resume_counter,
             next_id, finalized, ret, fc_pc>>

trkVars == <<trackers, tr_ret>>

svVars == <<svarint_num, svarint_bytes>>

vars == <<version, ssVars, asmVars, facVars, trkVars, svVars>>

\* ------------------------------------------------------------------ bounds
MaxLen == 4        \* longest instruction list given to stacksize (Spec_stacksize)
MaxJumps == 2      \* most jump instructions in such a list
WideLen == 5       \* the same two bounds for Spec_stacksize_wide
WideJumps == 3
DepthCap == 4      \* stacksize stops being stepped once a depth reaches this
MaxBody == 2       \* original instructions before the final RETURN_VALUE
MaxStackSize == 2  \* largest stack_size given to gen_resume_fn_at
MaxCalls == 1      \* convenience calls on a facade before the function is made
CounterCap == 2    \* no new facade once this many resume names were minted
MaxAsmLen == 3     \* longest instruction list assembled, all shapes enumerated
LongRun == 128     \* unmarked instructions between two line-marked ones

\* --------------------------------------------------------------- utilities
Max(a, b) == IF a >= b THEN a ELSE b

RECURSIVE SeqMax(_)
SeqMax(s) == IF Len(s) = 1 THEN s[1] ELSE Max(s[1], SeqMax(Tail(s)))

\* x in a Python list
InSeq(x, s) == \E i \in 1..Len(s) : s[i] = x

\* the parts not in use
StackIdle ==
    /\ ss_instructions = <<>> /\ max_stack = <<>> /\ queue = <<>>
    /\ visits = <<>> /\ ss_pc = "idle" /\ ss_result = 0

AsmIdle ==
    /\ asm_instructions = <<>> /\ firstlineno = 0 /\ asm_i = 0
    /\ code = <<>> /\ linetable = <<>>
    /\ cur_lineno = 0 /\ cur_bytecode = 0 /\ line_offset = 0 /\ asm_pc = "idle"

FacadeIdle ==
    /\ origin_code = <<>> /\ code_options = <<>> /\ instructions = <<>>
    /\ f_globals = <<>> /\ resume_counter = 0 /\ next_id = 0
    /\ finalized = FALSE /\ ret = <<>> /\ fc_pc = "idle"

\* no tracker was made
NoTrackerCall ==
    [op |-> "none", traceable |-> FALSE, expr |-> <<>>, free_vars |-> {},
     var_expr |-> "", error |-> ""]

TrackerIdle == trackers = <<>> /\ tr_ret = NoTrackerCall

SvarintIdle == svarint_num = 0 /\ svarint_bytes = <<>>

\* =================================================================== stacksize
\* float("-inf"): below every depth the bounded model can record
NegInf == -1000

NonJumpOps == {"LOAD_CONST", "POP_TOP", "RETURN_VALUE"}

\* the opcodes in opcode.hasjrel / opcode.hasjabs of the revision
RelJumpOps(v) ==
    IF v >= 311 THEN {"JUMP_FORWARD", "JUMP_BACKWARD", "FOR_ITER"}
    ELSE {"JUMP_FORWARD", "FOR_ITER"}

AbsJumpOps(v) == IF v >= 311 THEN {} ELSE {"JUMP_ABSOLUTE"}

HasJump(v, opname) == opname \in RelJumpOps(v) \cup AbsJumpOps(v)

\* dis.stack_effect(opcode, arg, jump=...)
StackEffect(opname, jump) ==
    CASE opname = "LOAD_CONST" -> 1
      [] opname = "LOAD_FAST" -> 1
      [] opname = "STORE_FAST" -> -1
      [] opname = "POP_TOP" -> -1
      [] opname = "RETURN_VALUE" -> -1
      [] opname = "FOR_ITER" -> IF jump THEN -1 ELSE 1
      [] OTHER -> 0

\* the names the loop excludes from the fall-through edge (as spelled there)
NoFallThrough == {"JUMP_ABSOLUTE", "JUMP_FORWARD", "JUMP_BACKWRAD"}

\* update_stacksize(lasti, nexti, stack_effect) on st = [ms, q]
\* (variant: records the proposed depth without taking the maximum)
UpdateStacksizeNoMax(st, lasti, nexti, stack_effect) ==
    LET old_max == st.ms[nexti]
        new == st.ms[lasti] + stack_effect
    IN  IF old_max # new
        THEN [ms |-> [st.ms EXCEPT ![nexti] = new],
              q |-> IF InSeq(nexti, st.q) THEN st.q ELSE Append(st.q, nexti)]
        ELSE st
UpdateStacksize(st, lasti, nexti, stack_effect) ==
    LET old_max == st.ms[nexti]
        cand == st.ms[lasti] + stack_effect
        new == IF old_max = NegInf THEN cand ELSE Max(old_max, cand)
    IN  IF old_max # new
        THEN [ms |-> [st.ms EXCEPT ![nexti] = new],
              q |-> IF InSeq(nexti, st.q) THEN st.q ELSE Append(st.q, nexti)]
        ELSE st

\* the fall-through half of one loop iteration
FallThroughUpdate(instrs, st, idx) ==
    IF idx + 1 <= Len(instrs) /\ instrs[idx].opname \notin NoFallThrough
    THEN UpdateStacksize(st, idx, idx + 1, StackEffect(instrs[idx].opname, FALSE))
    ELSE st

\* the jump half of one loop iteration
JumpUpdate(v, instrs, st, idx) ==
    IF HasJump(v, instrs[idx].opname)
    THEN UpdateStacksize(st, idx, instrs[idx].jump_to,
                         StackEffect(instrs[idx].opname, TRUE))
    ELSE st

\* stacksize entered: max_stack, queue initialised
StackEnter(instrs) ==
    /\ ss_instructions = instrs
    /\ max_stack = [i \in 1..Len(instrs) |-> IF i = 1 THEN 0 ELSE NegInf]
    /\ queue = <<1>>
    /\ visits = [i \in 1..Len(instrs) |-> 0]
    /\ ss_pc = "run"
    /\ ss_result = NegInf

\* `instructions.index(instr.jump_to)` finds nothing: the target of the jump
\* at idx is not an instruction of the list
JumpDangles(v, instrs, idx) ==
    HasJump(v, instrs[idx].opname) /\ instrs[idx].jump_to \notin 1..Len(instrs)

\* one iteration of `while len(queue) > 0`
StackStep ==
    /\ ss_pc = "run"
    /\ queue # <<>>
    /\ max_stack[Head(queue)] < DepthCap
    /\ ~JumpDangles(version, ss_instructions, Head(queue))
    /\ LET idx == Head(queue)
           st0 == [ms |-> max_stack, q |-> Tail(queue)]
           st1 == FallThroughUpdate(ss_instructions, st0, idx)
           st2 == JumpUpdate(version, ss_instructions, st1, idx)
       IN  /\ max_stack' = st2.ms
           /\ queue' = st2.q
           /\ visits' = [visits EXCEPT ![idx] = @ + 1]
    /\ UNCHANGED <<version, trkVars, svVars, ss_instructions, ss_pc, ss_result, asmVars, facVars>>

\* the iteration in which list.index raises ValueError: stacksize is left
StackRaise ==
    /\ ss_pc = "run"
    /\ queue # <<>>
    /\ JumpDangles(version, ss_instructions, Head(queue))
    /\ ss_pc' = "raised"
    /\ UNCHANGED <<version, trkVars, svVars, ss_instructions, max_stack, queue, visits, ss_result,
                   asmVars, facVars>>

\* the loop exits and max(max_stack) is returned
StackReturn ==
    /\ ss_pc = "run"
    /\ queue = <<>>
    /\ ss_pc' = "done"
    /\ ss_result' = SeqMax(max_stack)
    /\ UNCHANGED <<version, trkVars, svVars, ss_instructions, max_stack, queue, visits, asmVars, facVars>>

\* ---- the instruction lists stacksize is run on
\* relative forward jumps point ahead, JUMP_BACKWARD points back (or at itself)
JumpInstrs(v, n) ==
    {[opname |-> op, jump_to |-> t] :
        op \in RelJumpOps(v) \cup AbsJumpOps(v), t \in 1..n}

PlainInstrs == {[opname |-> op, jump_to |-> 0] : op \in NonJumpOps}

WellFormedJump(x, i) ==
    CASE x.opname \in {"JUMP_FORWARD", "FOR_ITER"} -> x.jump_to > i
      [] x.opname = "JUMP_BACKWARD" -> x.jump_to <= i
      [] OTHER -> TRUE

\* the lists of n instructions with at most j jumps
InstrLists(v, n, j) ==
    {s \in [1..n -> PlainInstrs \cup JumpInstrs(v, n)] :
        /\ \A i \in 1..n : WellFormedJump(s[i], i)
        /\ Cardinality({i \in 1..n : s[i].jump_to # 0}) <= j}

StackVersions == {310, 311}

StackInit(versions, maxLen, maxJumps) ==
    /\ version \in versions
    /\ \E n \in 1..maxLen : \E instrs \in InstrLists(version, n, maxJumps) :
           StackEnter(instrs)
    /\ AsmIdle
    /\ FacadeIdle
    /\ TrackerIdle
    /\ SvarintIdle

StackNext == StackStep \/ StackReturn

Spec_stacksize == StackInit(StackVersions, MaxLen, MaxJumps) /\ [][StackNext]_vars

\* longer lists, on the newest revision only
Spec_stacksize_wide == StackInit({311}, WideLen, WideJumps) /\ [][StackNext]_vars

\* ---- the graphs the stacksize claims speak of
\* The instructions whose fall-through edge the control-flow graph omits.
UnconditionalJumps == {"JUMP_ABSOLUTE", "JUMP_FORWARD", "JUMP_BACKWARD"}

\* Edges out of instruction i as records [to, eff]: of the control-flow graph
\* (followed = FALSE), or the ones the work-queue loop follows (followed = TRUE:
\* a fall-through from every instruction not named JUMP_ABSOLUTE/JUMP_FORWARD).
GraphEdges(v, instrs, i, followed) ==
    (IF /\ i + 1 <= Len(instrs)
        /\ instrs[i].opname \notin
             (IF followed THEN {"JUMP_ABSOLUTE", "JUMP_FORWARD"} ELSE UnconditionalJumps)
     THEN {[to |-> i + 1, eff |-> StackEffect(instrs[i].opname, FALSE)]}
     ELSE {})
    \cup (IF HasJump(v, instrs[i].opname)
          THEN {[to |-> instrs[i].jump_to, eff |-> StackEffect(instrs[i].opname, TRUE)]}
          ELSE {})

SetMax(S) == CHOOSE x \in S : \A y \in S : y <= x

\* The only element of a one-element set (binds a computed value once).
Only(S) == CHOOSE x \in S : TRUE

\* One round of relaxation of the depths d along the edges of the graph.
RelaxDepths(v, instrs, d, followed) ==
    LET into(j) == UNION {{d[i] + e.eff :
                              e \in {x \in GraphEdges(v, instrs, i, followed) : x.to = j}} :
                          i \in {x \in 1..Len(instrs) : d[x] # NegInf}}
    IN  [j \in 1..Len(instrs) |->
            IF into(j) = {} THEN d[j]
            ELSE IF d[j] = NegInf THEN SetMax(into(j))
            ELSE Max(d[j], SetMax(into(j)))]

RelaxOnce(v, instrs, d0, followed) ==
    Only({RelaxDepths(v, instrs, d, followed) : d \in {d0}})

RECURSIVE Relax(_, _, _, _, _)
Relax(v, instrs, d, k, followed) ==
    IF k = 0 THEN d
    ELSE Only({Relax(v, instrs, d1, k - 1, followed) :
                  d1 \in {RelaxOnce(v, instrs, d, followed)}})

\* BestDepths(..., k)[j]: the largest sum of stack effects over the walks of at
\* most k edges from the first instruction to j (NegInf: there is none).
BestDepths(v, instrs, k, followed) ==
    Relax(v, instrs, [j \in 1..Len(instrs) |-> IF j = 1 THEN 0 ELSE NegInf], k, followed)

\* the instructions reachable from the set r in at most k more edges of the
\* control-flow graph
RECURSIVE ReachFrom(_, _, _, _)
ReachFrom(v, instrs, r, k) ==
    IF k = 0 THEN r
    ELSE Only({ReachFrom(v, instrs, r1, k - 1) :
                  r1 \in {r \cup UNION {{e.to : e \in GraphEdges(v, instrs, x, FALSE)} :
                                         x \in r}}})

ReachIn(v, instrs, i, k) ==
    ReachFrom(v, instrs, {e.to : e \in GraphEdges(v, instrs, i, FALSE)}, k - 1)

Acyclic(v, instrs) ==
    \A i \in 1..Len(instrs) : i \notin ReachIn(v, instrs, i, Len(instrs))

\* the maximum over all paths from the first instruction of the summed effects
PathMax(v, instrs) == SeqMax(BestDepths(v, instrs, Len(instrs), FALSE))

\* No cycle of positive net effect can be reached along the edges the loop
\* follows: one more round of relaxation raises nothing.
NoPositiveCycle(v, instrs) ==
    \A d \in {BestDepths(v, instrs, Len(instrs) - 1, TRUE)} :
        RelaxOnce(v, instrs, d, TRUE) = d

VisitsBounded == \A i \in 1..Len(ss_instructions) : visits[i] <= Len(ss_instructions)

\* C1: for an acyclic control-flow graph, stacksize returns the maximum over
\* all paths from the first instruction of the sum of the stack effects along
\* the path (the empty path counting 0).
C1_PathMaximum ==
    (ss_pc = "done" /\ Acyclic(version, ss_instructions))
        => ss_result = PathMax(version, ss_instructions)

\* C21: an unconditional jump (JUMP_ABSOLUTE, JUMP_FORWARD, JUMP_BACKWARD)
\* contributes no fall-through edge: the iteration that takes such a jump off
\* the queue leaves the recorded entry depth of the instruction after it as it
\* was, unless that instruction is the target of the jump itself.
C21_NoFallThroughEdge ==
    [][(/\ ss_pc = "run"
        /\ queue # <<>>
        /\ ss_instructions[Head(queue)].opname \in UnconditionalJumps
        /\ Head(queue) + 1 <= Len(ss_instructions)
        /\ ss_instructions[Head(queue)].jump_to # Head(queue) + 1)
       => max_stack'[Head(queue) + 1] = max_stack[Head(queue) + 1]]_vars

\* C2 as stated: whatever the net stack effect of the cycles, no instruction
\* is taken off the queue more often than the list is long (the recorded
\* depths stop increasing and the queue drains).
C2_AnyCycle == ss_pc \in {"run", "done"} => VisitsBounded

\* C2 amended: when no cycle reachable along the edges the loop follows has a
\* positive net stack effect, the loop terminates: no instruction is taken off
\* the queue more than Len(instructions) times, and until the function has
\* returned a further step is always possible.
C2_Terminates ==
    \/ /\ VisitsBounded
       /\ (ss_pc = "run" => ENABLED StackNext)
    \/ ~NoPositiveCycle(version, ss_instructions)

\* C2 witness: an instruction list with a back edge, analysed to the end with
\* some instruction revisited.
C2_Witness ==
    /\ ss_pc = "done"
    /\ \E i \in 1..Len(ss_instructions) :
          /\ ss_instructions[i].jump_to # 0 /\ ss_instructions[i].jump_to <= i
          /\ visits[ss_instructions[i].jump_to] >= 2


\* ==================================================================== assemble
\* instr.starts_line is None / instr.arg is None
NoLine == 0
NoArg == -1

\* PYOPCODE_CACHE_SIZE.get(opname, 0)
CacheSize(opname) ==
    CASE opname = "BINARY_SUBSCR" -> 4
      [] opname = "STORE_SUBSCR" -> 1
      [] opname = "UNPACK_SEQUENCE" -> 1
      [] opname = "STORE_ATTR" -> 4
      [] opname = "LOAD_ATTR" -> 4
      [] opname = "COMPARE_OP" -> 2
      [] opname = "LOAD_GLOBAL" -> 5
      [] opname = "BINARY_OP" -> 1
      [] opname = "LOAD_METHOD" -> 10
      [] opname = "PRECALL" -> 1
      [] opname = "CALL" -> 4
      [] OTHER -> 0

\* get_instruction_size(instr)
GetInstructionSize(v, instr) ==
    LET cache_size == IF v >= 311 THEN CacheSize(instr.opname) ELSE 0
    IN  2 * (cache_size + 1)

\* instr.opcode (dis.opmap)
Opcode(opname) ==
    CASE opname = "NOP" -> 9
      [] opname = "LOAD_CONST" -> 100
      [] opname = "LOAD_METHOD" -> 160
      [] OTHER -> 0

\* to_byte(num)
ToByte(num) == IF num < 0 THEN num + 256 ELSE num

\* min(max(x, lo), hi)
Clamp(x, lo, hi) == IF x < lo THEN lo ELSE IF x > hi THEN hi ELSE x

\* variant: one pair per call, whatever the distances
LnotabLoopOnePair(lo, bo) ==
    IF lo = 0 /\ bo = 0 THEN <<>>
    ELSE <<Clamp(bo, 0, 255), ToByte(Clamp(lo, -128, 127))>>

\* the while loop of calc_lnotab
RECURSIVE LnotabLoop(_, _)
LnotabLoop(lo, bo) ==
    IF lo = 0 /\ bo = 0 THEN <<>>
    ELSE LET line_offset_step == Clamp(lo, -128, 127)
             byte_offset_step == Clamp(bo, 0, 255)
         IN  <<byte_offset_step, ToByte(line_offset_step)>>
             \o LnotabLoop(lo - line_offset_step, bo - byte_offset_step)

\* calc_lnotab(starts_line, code_length)
CalcLnotab(starts_line, code_length) ==
    LnotabLoop(starts_line - cur_lineno, code_length - cur_bytecode)

\* the while loop of calc_linetable_py310
RECURSIVE Py310Loop(_, _)
Py310Loop(lo, bo) ==
    IF lo = 0 /\ bo = 0 THEN <<>>
    ELSE LET line_offset_step == Clamp(lo, -127, 127)
             byte_offset_step == Clamp(bo, 0, 254)
         IN  <<byte_offset_step, ToByte(line_offset_step)>>
             \o Py310Loop(lo - line_offset_step, bo - byte_offset_step)

\* calc_linetable_py310(starts_line, code_length): the returned bytes
CalcLinetablePy310(starts_line, code_length) ==
    Py310Loop(line_offset, code_length - cur_bytecode)

\* variant: no continuation flag on the leading bytes
RECURSIVE EncodeVarintNoFlag(_)
EncodeVarintNoFlag(num) ==
    IF num >= 64 THEN <<num % 64>> \o EncodeVarintNoFlag(num \div 64)
    ELSE <<num>>

\* _encode_varint(num)
RECURSIVE EncodeVarint(_)
EncodeVarint(num) ==
    IF num >= 64 THEN <<(num % 64) + 64>> \o EncodeVarint(num \div 64)
    ELSE <<num>>

\* _encode_svarint(num)
EncodeSvarint(num) ==
    EncodeVarint(IF num < 0 THEN 2 * (-num) + 1 ELSE 2 * num)

\* variant: a distance above 8 code units gets its first entry only
EncodeEntriesFirstOnly(lo, bo) ==
    IF bo = 0 THEN <<>>
    ELSE <<232 + (Clamp(bo, 1, 8) - 1)>> \o EncodeSvarint(lo)

\* _encode_bytecode_to_entries_py311(line_offset, byte_offset)
RECURSIVE EncodeEntriesPy311(_, _)
EncodeEntriesPy311(lo, bo) ==
    IF bo = 0 THEN <<>>
    ELSE IF 0 < bo /\ bo <= 8
    THEN <<232 + (bo - 1)>> \o EncodeSvarint(lo)
    ELSE EncodeEntriesPy311(lo, 8) \o EncodeEntriesPy311(lo, bo - 8)

\* calc_linetable_py311(starts_line, code_length)
CalcLinetablePy311(starts_line, code_length) ==
    EncodeEntriesPy311(IF starts_line # NoLine THEN starts_line - cur_lineno ELSE 0,
                       (code_length - cur_bytecode) \div 2)

\* the calculator create_linetable_calculator returns for the revision
CalcLinetable(v, starts_line, code_length) ==
    IF v >= 311 THEN CalcLinetablePy311(starts_line, code_length)
    ELSE IF v >= 310 THEN CalcLinetablePy310(starts_line, code_length)
    ELSE CalcLnotab(starts_line, code_length)

\* variant: no cache entries are filled in
InstrBytesNoCache(v, instr) ==
    <<Opcode(instr.opname), (IF instr.arg = NoArg THEN 0 ELSE instr.arg) % 256>>

\* the bytes one instruction adds to code
InstrBytes(v, instr) ==
    <<Opcode(instr.opname), (IF instr.arg = NoArg THEN 0 ELSE instr.arg) % 256>>
    \o [k \in 1..(GetInstructionSize(v, instr) - 2) |-> 0]

\* assemble entered: code, linetable empty, the calculator's cursor at the start
AsmEnter(instrs, first) ==
    /\ asm_instructions = instrs
    /\ firstlineno = first
    /\ asm_i = 1
    /\ code = <<>>
    /\ linetable = <<>>
    /\ cur_lineno = first
    /\ cur_bytecode = 0
    /\ line_offset = 0
    /\ asm_pc = "loop"

\* one iteration of `for instr in instructions`
AsmStep ==
    /\ asm_pc = "loop"
    /\ asm_i <= Len(asm_instructions)
    /\ LET instr == asm_instructions[asm_i]
           lined == instr.starts_line # NoLine \/ version >= 311
       IN  /\ linetable' = IF lined
                           THEN linetable \o CalcLinetable(version, instr.starts_line, Len(code))
                           ELSE linetable
           \* calc_linetable_py310 assigns line_offset before update_cursor runs
           /\ line_offset' = IF lined /\ version = 310
                             THEN instr.starts_line - cur_lineno
                             ELSE line_offset
           \* update_cursor(instr.starts_line, len(code))
           /\ cur_bytecode' = IF lined THEN Len(code) ELSE cur_bytecode
           /\ cur_lineno' = IF lined /\ instr.starts_line # NoLine
                            THEN instr.starts_line ELSE cur_lineno
           /\ code' = code \o InstrBytes(version, instr)
    /\ asm_i' = asm_i + 1
    /\ UNCHANGED <<version, trkVars, svVars, ssVars, facVars, asm_instructions, firstlineno, asm_pc>>

\* the end hook of the revision, and the return
AsmFinish ==
    /\ asm_pc = "loop"
    /\ asm_i > Len(asm_instructions)
    /\ linetable' = IF version >= 311
                    THEN linetable \o CalcLinetable(version, NoLine, Len(code))
                    ELSE IF version >= 310
                    THEN linetable \o CalcLinetable(version, 0, Len(code))
                    ELSE linetable
    /\ line_offset' = IF version = 310 THEN 0 - cur_lineno ELSE line_offset
    /\ asm_pc' = "done"
    /\ UNCHANGED <<version, trkVars, svVars, ssVars, facVars, asm_instructions, firstlineno, asm_i, code,
                   cur_lineno, cur_bytecode>>

\* ---- the instruction lists assemble is run on
Versions == {38, 310, 311}
Lines == {1, 2, 200}
AsmTemplates == {[opname |-> "NOP", arg |-> NoArg],
                 [opname |-> "LOAD_CONST", arg |-> 1],
                 [opname |-> "LOAD_METHOD", arg |-> 300]}

AsmInstr(t, line) == [opname |-> t.opname, arg |-> t.arg, starts_line |-> line]

AsmInstrs == {AsmInstr(t, l) : t \in AsmTemplates, l \in Lines \cup {NoLine}}

\* every list of up to MaxAsmLen instructions
ShortLists == UNION {[1..n -> AsmInstrs] : n \in 0..MaxAsmLen}

\* a marked instruction, LongRun unmarked ones, a marked instruction
LongLists ==
    {<<AsmInstr([opname |-> "LOAD_CONST", arg |-> 1], a)>>
       \o [k \in 1..LongRun |-> AsmInstr([opname |-> "NOP", arg |-> NoArg], NoLine)]
       \o <<AsmInstr([opname |-> "LOAD_CONST", arg |-> 1], b)>> :
     a \in Lines, b \in Lines}

AsmInit ==
    /\ version \in Versions
    /\ \E instrs \in ShortLists \cup LongLists, first \in {1, 2} : AsmEnter(instrs, first)
    /\ StackIdle
    /\ FacadeIdle
    /\ TrackerIdle
    /\ SvarintIdle

AsmNext == AsmStep \/ AsmFinish

Spec_assemble == AsmInit /\ [][AsmNext]_vars

\* ---- reading the line tables back
\* the source line recorded for instruction i: the latest starts_line at or
\* before it, else firstlineno
RecordedLine(instrs, first, i) ==
    LET marked == {k \in 1..i : instrs[k].starts_line # NoLine}
    IN  IF marked = {} THEN first ELSE instrs[SetMax(marked)].starts_line

\* the byte offset of instruction i in the stream
RECURSIVE SizeOfRange(_, _, _, _)
SizeOfRange(v, instrs, a, b) ==
    IF a > b THEN 0
    ELSE IF a = b THEN GetInstructionSize(v, instrs[a])
    ELSE SizeOfRange(v, instrs, a, (a + b) \div 2)
         + SizeOfRange(v, instrs, (a + b) \div 2 + 1, b)

AsmOffset(v, instrs, i) == SizeOfRange(v, instrs, 1, i - 1)

Signed(b) == IF b >= 128 THEN b - 256 ELSE b

\* co_lnotab: per pair, add the byte delta, then the signed line delta; the
\* line of offset off is the one in force once every pair whose address is at
\* or before off has been applied.
RECURSIVE LnotabLineAt(_, _, _, _, _)
LnotabLineAt(table, k, addr, line, off) ==
    IF k > Len(table) THEN line
    ELSE IF addr + table[k] > off THEN line
    ELSE LnotabLineAt(table, k + 2, addr + table[k], line + Signed(table[k + 1]), off)

\* co_linetable of 3.10: each pair describes the byte range of length sdelta
\* after the previous range and gives it the running line plus ldelta (-128: the
\* range has no line). NoLine when no range holds off.
RECURSIVE Py310LineAt(_, _, _, _, _)
Py310LineAt(table, k, start, line, off) ==
    IF k > Len(table) THEN NoLine
    ELSE LET ldelta == Signed(table[k + 1])
             newline == IF ldelta = -128 THEN line ELSE line + ldelta
         IN  IF start <= off /\ off < start + table[k]
             THEN (IF ldelta = -128 THEN NoLine ELSE newline)
             ELSE Py310LineAt(table, k + 2, start + table[k], newline, off)

\* the varint starting at table[k]: 6 bits per byte, little-endian, 0x40 = more
RECURSIVE VarintAt(_, _)
VarintAt(table, k) ==
    IF table[k] >= 64
    THEN LET r == VarintAt(table, k + 1)
         IN  [val |-> (table[k] % 64) + 64 * r.val, next |-> r.next]
    ELSE [val |-> table[k], next |-> k + 1]

\* co_linetable of 3.11: each entry (head byte: 0x80 | code << 3 | length - 1,
\* then for code 13 a signed varint line delta) covers the next `length` code
\* units and gives them the running line plus its delta. NoLine when no entry
\* holds code unit u.
RECURSIVE Py311LineAt(_, _, _, _, _)
Py311LineAt(table, k, start, line, u) ==
    IF k > Len(table) THEN NoLine
    ELSE LET length == (table[k] % 8) + 1
             sv == VarintAt(table, k + 1)
             delta == IF sv.val % 2 = 1 THEN -(sv.val \div 2) ELSE sv.val \div 2
         IN  IF start <= u /\ u < start + length
             THEN line + delta
             ELSE Py311LineAt(table, sv.next, start + length, line + delta, u)

\* the line the finished table gives instruction i
DecodedLine(v, i) ==
    LET off == AsmOffset(v, asm_instructions, i)
    IN  IF v >= 311 THEN Py311LineAt(linetable, 1, 0, firstlineno, off \div 2)
        ELSE IF v >= 310 THEN Py310LineAt(linetable, 1, 0, firstlineno, off)
        ELSE LnotabLineAt(linetable, 1, 0, firstlineno, off)

RoundTrip ==
    \A i \in 1..Len(asm_instructions) :
        DecodedLine(version, i) = RecordedLine(asm_instructions, firstlineno, i)

\* C3: oldest format (co_lnotab): the table assemble returns decodes, at the
\* byte offset of every instruction, to the source line recorded for it.
C3_LnotabRoundTrip == (asm_pc = "done" /\ version < 310) => RoundTrip

\* C4: middle format (3.10 co_linetable): the table assemble returns decodes,
\* at the byte offset of every instruction, to the source line recorded for it.
C4_Py310RoundTrip == (asm_pc = "done" /\ version = 310) => RoundTrip

\* C5: newest format (3.11 co_linetable): the table assemble returns decodes,
\* for every instruction, to the source line recorded for it.
C5_Py311RoundTrip == (asm_pc = "done" /\ version >= 311) => RoundTrip

\* =================================================================== PyCodeGen
\* ---- names and objects are strings; an absent value is the empty string
NoVal == ""

\* NameGenerator.next() of ResumeFnNameFactory: 'resume_' + str(counter)
ResumeFnName(n) ==
    <<"resume_0",
     "resume_1",
     "resume_2",
     "resume_3",
     "resume_4",
     "resume_5">>[n + 1]

\* stack_arg_str.format(i) with stack_arg_str = fn_name + '_stack_{}'
StackArgStr(n, i) ==
    <<<<"resume_0_stack_0", "resume_0_stack_1", "resume_0_stack_2", "resume_0_stack_3", "resume_0_stack_4">>,
     <<"resume_1_stack_0", "resume_1_stack_1", "resume_1_stack_2", "resume_1_stack_3", "resume_1_stack_4">>,
     <<"resume_2_stack_0", "resume_2_stack_1", "resume_2_stack_2", "resume_2_stack_3", "resume_2_stack_4">>,
     <<"resume_3_stack_0", "resume_3_stack_1", "resume_3_stack_2", "resume_3_stack_3", "resume_3_stack_4">>,
     <<"resume_4_stack_0", "resume_4_stack_1", "resume_4_stack_2", "resume_4_stack_3", "resume_4_stack_4">>,
     <<"resume_5_stack_0", "resume_5_stack_1", "resume_5_stack_2", "resume_5_stack_3", "resume_5_stack_4">>>>[n + 1][i + 1]

\* list.index(x), 0-based
ListIndex(s, x) == (CHOOSE i \in 1..Len(s) : s[i] = x /\ \A j \in 1..(i - 1) : s[j] # x) - 1

\* list_contain_by_id / list_find_index_by_id: objects are named by their identity
ListContainById(s, x) == \E i \in 1..Len(s) : s[i] = x
ListFindIndexById(s, x) == ListIndex(s, x)

\* [x for x in s if x not in t]
RECURSIVE NotIn(_, _)
NotIn(s, t) ==
    IF s = <<>> THEN <<>>
    ELSE (IF InSeq(Head(s), t) THEN <<>> ELSE <<Head(s)>>) \o NotIn(Tail(s), t)

\* OrderedSet: insertion-ordered, duplicate-free
OrderedAdd(s, x) == IF InSeq(x, s) THEN s ELSE Append(s, x)

RECURSIVE OrderedUnion(_, _)
OrderedUnion(s, t) ==
    IF t = <<>> THEN s ELSE OrderedUnion(OrderedAdd(s, Head(t)), Tail(t))

\* gen_instr(opname, arg, argval, jump_to): a new Instruction object; id is the
\* object's identity, jump_to the identity of the target (0: None)
GenInstr(id, opname, arg, argval, jump_to) ==
    [id |-> id, opname |-> opname, arg |-> arg, argval |-> argval, jump_to |-> jump_to]

\* ---- the facade as a value, so that calls compose
Self ==
    [code_options |-> code_options, instructions |-> instructions,
     f_globals |-> f_globals, next_id |-> next_id, error |-> NoVal]

\* _add_instr(opname, arg, argval)
AddInstr(self, opname, arg, argval) ==
    Only({[s EXCEPT !.instructions = Append(@, GenInstr(s.next_id, opname, arg, argval, 0)),
                    !.next_id = @ + 1] : s \in {self}})

\* variant: the name is appended whether or not the table has it
WithNameAlways(self, table, name) ==
    Only({[s EXCEPT !.code_options[table] = Append(@, name)] : s \in {self}})

\* `if name not in table: table.append(name)`
WithName(self, table, name) ==
    Only({IF InSeq(name, s.code_options[table]) THEN s
          ELSE [s EXCEPT !.code_options[table] = Append(@, name)] : s \in {self}})

\* what a constant object (named by its identity) compares equal to: the
\* integer 1 and True are equal, the integer 0 and False are equal
ConstValue(obj) ==
    CASE obj \in {"one", "true"} -> 1
      [] obj \in {"zero", "False"} -> 0
      [] obj = "None" -> -1
      [] OTHER -> -2

\* `value in li` and `li.index(value)`: comparison by ==
ListContain(s, x) == \E i \in 1..Len(s) : ConstValue(s[i]) = ConstValue(x)
ListIndexByValue(s, x) ==
    (CHOOSE i \in 1..Len(s) :
        /\ ConstValue(s[i]) = ConstValue(x)
        /\ \A j \in 1..(i - 1) : ConstValue(s[j]) # ConstValue(x)) - 1

\* variant: the pool is searched with == instead of by identity
GenLoadConstByValue(self, value) ==
    Only({AddInstr(s, "LOAD_CONST", ListIndexByValue(s.code_options.co_consts, value), value) :
          s \in {IF ListContain(self.code_options.co_consts, value) THEN self
                 ELSE [self EXCEPT !.code_options.co_consts = Append(@, value)]}})

\* gen_load_const(value)
GenLoadConst(self, value) ==
    Only({AddInstr(s, "LOAD_CONST", ListFindIndexById(s.code_options.co_consts, value), value) :
          s \in {IF ListContainById(self.code_options.co_consts, value) THEN self
                 ELSE [self EXCEPT !.code_options.co_consts = Append(@, value)]}})

\* gen_load_global(name, push_null)
GenLoadGlobal(self, name, push_null) ==
    Only({LET idx == ListIndex(s.code_options.co_names, name)
          IN  AddInstr(s, "LOAD_GLOBAL",
                       IF version >= 311 THEN 2 * idx + (IF push_null THEN 1 ELSE 0) ELSE idx,
                       name) :
          s \in {WithName(self, "co_names", name)}})

\* gen_load_object(obj, obj_name)
GenLoadObject(self, obj, obj_name) ==
    Only({GenLoadGlobal(
              IF obj_name \in DOMAIN s.f_globals THEN s
              ELSE [s EXCEPT !.f_globals = [n \in DOMAIN s.f_globals \cup {obj_name} |->
                                              IF n = obj_name THEN obj ELSE s.f_globals[n]]],
              obj_name, TRUE) : s \in {self}})

\* gen_load_fast(name)
GenLoadFast(self, name) ==
    Only({AddInstr(s, "LOAD_FAST", ListIndex(s.code_options.co_varnames, name), name) :
          s \in {WithName(self, "co_varnames", name)}})

\* gen_store_fast(name)
GenStoreFast(self, name) ==
    Only({AddInstr(s, "STORE_FAST", ListIndex(s.code_options.co_varnames, name), name) :
          s \in {WithName(self, "co_varnames", name)}})

\* gen_load_deref(name)
GenLoadDeref(self, name) ==
    Only({AddInstr(s, "LOAD_DEREF", ListIndex(s.code_options.co_cellvars, name), name) :
          s \in {WithName(self, "co_cellvars", name)}})

\* the name-based calls on table: the name is added when absent, the operand
\* is its index
GenNamed(self, opname, table, name) ==
    Only({AddInstr(s, opname, ListIndex(s.code_options[table], name), name) :
          s \in {WithName(self, table, name)}})

\* gen_store_deref(name)
GenStoreDeref(self, name) == GenNamed(self, "STORE_DEREF", "co_cellvars", name)

\* gen_store_global(name)
GenStoreGlobal(self, name) == GenNamed(self, "STORE_GLOBAL", "co_names", name)

\* gen_load_attr(name)
GenLoadAttr(self, name) == GenNamed(self, "LOAD_ATTR", "co_names", name)

\* gen_load_method(name)
GenLoadMethod(self, name) == GenNamed(self, "LOAD_METHOD", "co_names", name)

\* gen_delete_global(name)
GenDeleteGlobal(self, name) == GenNamed(self, "DELETE_GLOBAL", "co_names", name)

\* gen_import_name(name)
GenImportName(self, name) == GenNamed(self, "IMPORT_NAME", "co_names", name)

\* gen_call_function(argc)
GenCallFunction(self, argc) ==
    IF version >= 311
    THEN AddInstr(AddInstr(self, "PRECALL", argc, NoVal), "CALL", argc, NoVal)
    ELSE AddInstr(self, "CALL_FUNCTION", argc, NoVal)

\* gen_build_tuple(count)
GenBuildTuple(self, count) == AddInstr(self, "BUILD_TUPLE", count, NoVal)

\* gen_return()
GenReturn(self) == AddInstr(self, "RETURN_VALUE", NoArg, NoVal)

\* gen_load(name); a raised InnerError is carried in the error field
GenLoad(self, name) ==
    Only({IF InSeq(name, s.code_options.co_cellvars) THEN GenLoadDeref(s, name)
          ELSE IF InSeq(name, s.code_options.co_varnames) THEN GenLoadFast(s, name)
          ELSE IF InSeq(name, s.code_options.co_names) THEN GenLoadGlobal(s, name, FALSE)
          ELSE [s EXCEPT !.error = "InnerError"] : s \in {self}})

\* `for name in outputs: self.gen_load(name)`; the loop ends at the first raise
RECURSIVE GenLoadAll(_, _)
GenLoadAll(self, names) ==
    Only({IF names = <<>> \/ s.error # NoVal THEN s
          ELSE GenLoadAll(GenLoad(s, Head(names)), Tail(names)) : s \in {self}})

\* variant: the local-slot table is asked before the captured-slot table
GenStoreLocalFirst(self, name, c) ==
    Only({IF InSeq(name, c.co_varnames) THEN GenStoreFast(s, name)
          ELSE IF InSeq(name, c.co_cellvars) THEN GenStoreDeref(s, name)
          ELSE IF InSeq(name, c.co_names) THEN GenStoreGlobal(s, name)
          ELSE [s EXCEPT !.error = "InnerError"] : s \in {self}})

\* gen_store(name, code); c holds the tables of the code object passed
GenStore(self, name, c) ==
    Only({IF InSeq(name, c.co_cellvars) THEN GenStoreDeref(s, name)
          ELSE IF InSeq(name, c.co_varnames) THEN GenStoreFast(s, name)
          ELSE IF InSeq(name, c.co_names) THEN GenStoreGlobal(s, name)
          ELSE [s EXCEPT !.error = "InnerError"] : s \in {self}})

\* gen_disable_eval_frame(); clean is is_clean_code()
GenDisableEvalFrame(self, clean) ==
    IF clean THEN self
    ELSE GenStoreFast(
             GenCallFunction(
                 GenLoadConst(
                     GenLoadObject(self, "set_eval_frame", "paddle_set_eval_frame_fn"),
                     "None"),
                 1),
             "___old_eval_frame")

\* ---- the original code object and its instruction list
\* co_varnames of every original code object of the model
OriginVarnames == <<"z", "x", "y">>

\* get_instructions(code): new Instruction objects (identities base_id + 1 ..)
\* for the instructions of the code object, jump targets linked
GetInstructions(c, base_id) ==
    [i \in 1..Len(c.instrs) |->
        GenInstr(base_id + i, c.instrs[i].opname,
                 IF c.instrs[i].opname \in {"LOAD_FAST", "STORE_FAST"}
                 THEN ListIndex(c.co_varnames, c.instrs[i].argval) ELSE NoArg,
                 c.instrs[i].argval,
                 IF c.instrs[i].jump_pos = 0 THEN 0 ELSE base_id + c.instrs[i].jump_pos)]

\* the position (1-based) of the Instruction object with identity id
PosOfId(instrs, id) == CHOOSE j \in 1..Len(instrs) : instrs[j].id = id

\* UNCONDITIONAL_JUMP of opcode_info
UNCONDITIONAL_JUMP == {"JUMP_ABSOLUTE", "JUMP_FORWARD"}

\* analysis_inputs(instructions, index): the walk from position i that collects
\* the local names read before they are written on some path to the exit
RECURSIVE Walk(_, _, _, _, _)
Walk(instrs, i, reads, writes, visited) ==
    IF i > Len(instrs) \/ i \in visited THEN reads
    ELSE LET instr == instrs[i]
             seen == visited \cup {i}
         IN  CASE instr.opname = "LOAD_FAST" ->
                    Walk(instrs, i + 1,
                         IF instr.argval \in writes THEN reads ELSE OrderedAdd(reads, instr.argval),
                         writes, seen)
               [] instr.opname = "STORE_FAST" ->
                    Walk(instrs, i + 1, reads, writes \cup {instr.argval}, seen)
               [] instr.jump_to # 0 ->
                    OrderedUnion(
                        Walk(instrs, PosOfId(instrs, instr.jump_to), reads, writes, seen),
                        IF instr.opname \in UNCONDITIONAL_JUMP THEN <<>>
                        ELSE Walk(instrs, i + 1, reads, writes, seen))
               [] instr.opname = "RETURN_VALUE" -> reads
               [] OTHER -> Walk(instrs, i + 1, reads, writes, seen)

AnalysisInputs(instrs, index) == Walk(instrs, index + 1, <<>>, {}, {})

\* ---- finalization
\* some jump target is not an instruction of the list
Dangling(instrs) ==
    \E i \in 1..Len(instrs) :
        /\ instrs[i].jump_to # 0
        /\ ~\E j \in 1..Len(instrs) : instrs[j].id = instrs[i].jump_to

\* byte offset of position p
RECURSIVE OffsetOf(_, _)
OffsetOf(instrs, p) ==
    IF p = 1 THEN 0 ELSE OffsetOf(instrs, p - 1) + GetInstructionSize(version, instrs[p - 1])

\* modify_instrs(instructions): every jump operand becomes the final offset of
\* its target
ModifyInstrs(instrs) ==
    [i \in 1..Len(instrs) |->
        IF instrs[i].jump_to # 0 /\ \E j \in 1..Len(instrs) : instrs[j].id = instrs[i].jump_to
        THEN [instrs[i] EXCEPT !.arg = OffsetOf(instrs, PosOfId(instrs, instrs[i].jump_to))]
        ELSE instrs[i]]

\* modify_vars(instructions, code_options): local accesses are re-placed on the
\* local-slot table
ModifyVars(instrs, options) ==
    [i \in 1..Len(instrs) |->
        IF instrs[i].opname \in {"LOAD_FAST", "STORE_FAST"}
           /\ InSeq(instrs[i].argval, options.co_varnames)
        THEN [instrs[i] EXCEPT !.arg = ListIndex(options.co_varnames, instrs[i].argval)]
        ELSE instrs[i]]

\* gen_new_opcode(instrs, code_options, keys): the attribute bundle of the new
\* code object. co_code, the line table and co_stacksize are what assemble and
\* stacksize return for instrs; the bundle keeps the tables.
GenNewOpcode(instrs, options) ==
    [options EXCEPT !.co_nlocals = Len(options.co_varnames)]

\* gen_pycode(): self after the call; self.code_options is the new code object
GenPycode(self) ==
    Only({IF Dangling(s.instructions) THEN [s EXCEPT !.error = "ConstructionError"]
          ELSE Only({[s EXCEPT !.instructions = m,
                               !.code_options = GenNewOpcode(m, s.code_options)] :
                     m \in {ModifyVars(ModifyInstrs(s.instructions), s.code_options)}}) :
          s \in {self}})

\* gen_code_options(code)
GenCodeOptions(c) ==
    [co_argcount |-> c.co_argcount,
     co_nlocals  |-> c.co_nlocals,
     co_varnames |-> c.co_varnames,
     co_names    |-> c.co_names,
     co_consts   |-> c.co_consts,
     co_cellvars |-> c.co_cellvars,
     co_freevars |-> c.co_freevars,
     co_name     |-> IF Head(c.co_name) = "#" THEN c.co_name
                     ELSE <<"#">> \o c.co_name \o <<"_hash">>]

\* f"#{fn_name}@{co_name[1:]}"
ResumeCoName(fn_name, co_name) == <<"#", fn_name, "@">> \o Tail(co_name)

\* ---- gen_resume_fn_at(index, stack_size)
\* variant: no instruction is taken for a RETURN_VALUE
NeverReturnValue(instr) == FALSE

\* `self._instructions[index].opname == 'RETURN_VALUE'`
IsReturnValue(instr) == instr.opname = "RETURN_VALUE"

\* the jump that enters the resume function
ResumeJumpOpname(v) == IF v >= 311 THEN "JUMP_FORWARD" ELSE "JUMP_ABSOLUTE"

\* variant: the jump goes to the first original instruction
ResumeBodyFromStart(v, n, stack_size, origin, index, base_id) ==
    [i \in 1..stack_size |->
        GenInstr(base_id + i, "LOAD_FAST", NoArg, StackArgStr(n, i - 1), 0)]
    \o <<GenInstr(base_id + stack_size + 1, ResumeJumpOpname(v), NoArg, NoVal,
                  origin[1].id)>>
    \o origin

\* the instruction list of the resume function: the placeholder loads, the jump
\* to origin[index], the original instructions
ResumeBody(v, n, stack_size, origin, index, base_id) ==
    [i \in 1..stack_size |->
        GenInstr(base_id + i, "LOAD_FAST", NoArg, StackArgStr(n, i - 1), 0)]
    \o <<GenInstr(base_id + stack_size + 1, ResumeJumpOpname(v), NoArg, NoVal,
                  origin[index + 1].id)>>
    \o origin

\* co_argcount of the resume function
ResumeArgcount(inputs, stack_size) == Len(inputs) + stack_size

\* variant: the live-in names come after the other original names
ResumeVarnamesLiveLast(n, stack_size, inputs, co_varnames) ==
    [i \in 1..stack_size |-> StackArgStr(n, i - 1)]
    \o NotIn(co_varnames, inputs)
    \o inputs

\* co_varnames of the resume function
ResumeVarnames(n, stack_size, inputs, co_varnames) ==
    [i \in 1..stack_size |-> StackArgStr(n, i - 1)]
    \o inputs
    \o NotIn(co_varnames, inputs)

\* variant: cell slots count as well
NeedsAnyClosureSlot(new_code) ==
    Len(new_code.co_freevars) > 0 \/ Len(new_code.co_cellvars) > 0

\* `len(new_code.co_freevars) > 0`
NeedsClosure(new_code) == Len(new_code.co_freevars) > 0

\* types.FunctionType(new_code, self._f_globals, fn_name)
FunctionType(new_code, fn_name) == [code |-> new_code, name |-> fn_name]

\* the record of a call on the facade (code_arg: the tables of a code object
\* passed to the call, when one is)
Call(op, index, stack_size, inputs_arg, outputs_arg, fn, inputs, error) ==
    [op |-> op, index |-> index, stack_size |-> stack_size,
     inputs_arg |-> inputs_arg, outputs_arg |-> outputs_arg,
     fn |-> fn, inputs |-> inputs, error |-> error, calls |-> ret.calls + 1,
     code_arg |-> <<>>]

\* the facade's fields become those of s
Becomes(s) ==
    /\ code_options' = s.code_options
    /\ instructions' = s.instructions
    /\ f_globals' = s.f_globals
    /\ next_id' = s.next_id

GenResumeFnAt(index, stack_size) ==
    /\ fc_pc = "accumulating"
    /\ index < Len(origin_code.instrs)
    /\ \E origin \in {GetInstructions(origin_code, next_id)} :
         IF IsReturnValue(origin[index + 1])
         THEN /\ instructions' = origin
              /\ next_id' = next_id + Len(origin)
              /\ ret' = Call("gen_resume_fn_at", index, stack_size, <<>>, <<>>,
                             <<>>, <<>>, NoVal)
              /\ fc_pc' = "returned"
              /\ UNCHANGED <<code_options, f_globals, resume_counter, finalized>>
         ELSE \E inputs \in {AnalysisInputs(origin, index)} :
              \E done \in {GenPycode(
                     [Self EXCEPT
                        !.instructions = ResumeBody(version, resume_counter, stack_size,
                                                    origin, index, next_id + Len(origin)),
                        !.next_id = next_id + Len(origin) + stack_size + 1,
                        !.code_options =
                            [code_options EXCEPT
                               !.co_argcount = ResumeArgcount(inputs, stack_size),
                               !.co_varnames = ResumeVarnames(resume_counter, stack_size,
                                                              inputs, origin_code.co_varnames),
                               !.co_name = ResumeCoName(ResumeFnName(resume_counter), @)]])} :
                /\ Becomes(done)
                /\ resume_counter' = resume_counter + 1
                /\ finalized' = TRUE
                /\ IF done.error # NoVal
                   THEN /\ ret' = Call("gen_resume_fn_at", index, stack_size, <<>>, <<>>,
                                       <<>>, <<>>, done.error)
                        /\ fc_pc' = "raised"
                   ELSE IF NeedsClosure(done.code_options)
                   THEN /\ ret' = Call("gen_resume_fn_at", index, stack_size, <<>>, <<>>,
                                       <<>>, <<>>, "NotImplementException")
                        /\ fc_pc' = "raised"
                   ELSE /\ ret' = Call("gen_resume_fn_at", index, stack_size, <<>>, <<>>,
                                       <<FunctionType(done.code_options,
                                                      ResumeFnName(resume_counter))>>,
                                       inputs, NoVal)
                        /\ fc_pc' = "returned"
    /\ UNCHANGED <<version, trkVars, svVars, ssVars, asmVars, origin_code>>

\* ---- create_fn_with_specific_io(inputs, outputs)
\* variant: the original names are all kept after the inputs
IoVarnamesAll(inputs, co_varnames) == inputs \o co_varnames

\* co_varnames of the extraction function
IoVarnames(inputs, co_varnames) == inputs \o NotIn(co_varnames, inputs)

\* the body of create_fn_with_specific_io run on the facade value self; op names
\* the facade operation that runs it and returned is what that operation hands
\* back beside the function
CreateFnFrom(self, op, index, stack_size, inputs, outputs, returned) ==
    /\ fc_pc = "accumulating"
    /\ \E loaded \in {GenLoadAll(self, outputs)} :
         IF loaded.error # NoVal
         THEN /\ Becomes(loaded)
              /\ ret' = Call(op, index, stack_size, inputs, outputs,
                             <<>>, <<>>, loaded.error)
              /\ fc_pc' = "raised"
              /\ UNCHANGED <<resume_counter, finalized>>
         ELSE \E built \in {GenBuildTuple(loaded, Len(outputs))} :
              \E returns \in {GenReturn(
                     [built EXCEPT
                        !.code_options.co_argcount = Len(inputs),
                        !.code_options.co_varnames =
                            IoVarnames(inputs, origin_code.co_varnames)])} :
              \E done \in {GenPycode(
                     [returns EXCEPT
                        !.code_options.co_name =
                            ResumeCoName(ResumeFnName(resume_counter), @)])} :
                /\ Becomes(done)
                /\ resume_counter' = resume_counter + 1
                /\ finalized' = TRUE
                /\ IF done.error # NoVal
                   THEN /\ ret' = Call(op, index, stack_size, inputs, outputs,
                                       <<>>, <<>>, done.error)
                        /\ fc_pc' = "raised"
                   ELSE IF NeedsClosure(done.code_options)
                   THEN /\ ret' = Call(op, index, stack_size, inputs, outputs,
                                       <<>>, <<>>, "NotImplementException")
                        /\ fc_pc' = "raised"
                   ELSE /\ ret' = Call(op, index, stack_size, inputs, outputs,
                                       <<FunctionType(done.code_options,
                                                      ResumeFnName(resume_counter))>>,
                                       returned, NoVal)
                        /\ fc_pc' = "returned"
    /\ UNCHANGED <<version, trkVars, svVars, ssVars, asmVars, origin_code>>

CreateFnWithSpecificIo(inputs, outputs) ==
    CreateFnFrom(Self, "create_fn_with_specific_io", 0, 0, inputs, outputs, <<>>)

\* ---- the original code objects and the calls of the model
\* the facade only asks whether the revision is 3.11
FacadeVersions == {310, 311}

OriginTemplates(n) ==
    {[opname |-> "LOAD_FAST", argval |-> "x", jump_pos |-> 0],
     [opname |-> "LOAD_FAST", argval |-> "y", jump_pos |-> 0],
     [opname |-> "STORE_FAST", argval |-> "x", jump_pos |-> 0],
     [opname |-> "POP_JUMP_IF_FALSE", argval |-> NoVal, jump_pos |-> n + 1]}

\* instruction lists: up to MaxBody instructions (the jumps go to the end), then
\* RETURN_VALUE
OriginInstrs ==
    UNION {{b \o <<[opname |-> "RETURN_VALUE", argval |-> NoVal, jump_pos |-> 0]>> :
            b \in [1..n -> OriginTemplates(n)]} :
           n \in 0..MaxBody}

\* co_cellvars and co_freevars of the original code objects: a plain function,
\* one whose local c is captured by an inner function, one that is a closure
OriginClosures ==
    {[cells |-> <<>>, frees |-> <<>>],
     [cells |-> <<"c">>, frees |-> <<>>],
     [cells |-> <<>>, frees |-> <<"f">>]}

\* frame.f_code
OriginCodes ==
    {[co_argcount |-> 1,
      co_nlocals  |-> Len(OriginVarnames),
      co_varnames |-> OriginVarnames,
      co_names    |-> <<"g">>,
      co_consts   |-> <<"None">>,
      co_cellvars |-> cl.cells,
      co_freevars |-> cl.frees,
      co_name     |-> <<"fn">>,
      instrs      |-> l] :
     cl \in OriginClosures, l \in OriginInstrs}

\* frame.f_globals
OriginGlobals == [n \in {"g"} |-> "obj_g"]

\* PyCodeGen.__init__(frame, disable_eval_frame); clean is is_clean_code()
NewPyCodeGen(c, disable_eval_frame, clean) ==
    Only({IF disable_eval_frame THEN GenDisableEvalFrame(resumed, clean) ELSE resumed :
          resumed \in {IF version >= 311
                       THEN AddInstr([code_options |-> GenCodeOptions(c),
                                      instructions |-> <<>>,
                                      f_globals |-> OriginGlobals,
                                      next_id |-> 1, error |-> NoVal],
                                     "RESUME", 0, NoVal)
                       ELSE [code_options |-> GenCodeOptions(c),
                             instructions |-> <<>>,
                             f_globals |-> OriginGlobals,
                             next_id |-> 1, error |-> NoVal]}})

\* the record of the constructor call
Constructed ==
    [op |-> "__init__", index |-> 0, stack_size |-> 0,
     inputs_arg |-> <<>>, outputs_arg |-> <<>>,
     fn |-> <<>>, inputs |-> <<>>, error |-> NoVal, calls |-> 0, code_arg |-> <<>>]

\* the facade that has made its function (or failed to) is dropped; the
\* process-wide name counter stays
DropFacade ==
    /\ fc_pc \in {"returned", "raised"}
    /\ origin_code' = <<>> /\ code_options' = <<>> /\ instructions' = <<>>
    /\ f_globals' = <<>> /\ next_id' = 0 /\ finalized' = FALSE /\ ret' = <<>>
    /\ fc_pc' = "idle"
    /\ UNCHANGED <<version, trkVars, svVars, ssVars, asmVars, resume_counter>>

\* a new facade on a new frame
NewFacade ==
    /\ fc_pc = "idle"
    /\ resume_counter < CounterCap
    /\ \E c \in OriginCodes, disable_eval_frame \in BOOLEAN, clean \in BOOLEAN :
         /\ origin_code' = c
         /\ Becomes(NewPyCodeGen(c, disable_eval_frame, clean))
    /\ finalized' = FALSE
    /\ ret' = Constructed
    /\ fc_pc' = "accumulating"
    /\ UNCHANGED <<version, trkVars, svVars, ssVars, asmVars, resume_counter>>

\* the convenience calls made while accumulating
ConstObjects == {"one"}

\* a convenience call made while fewer than max calls were made; arg is the
\* call's integer or boolean (0, 1) argument, kept in the record's index field
AccumulateArg(s, op, arg, max) ==
    /\ fc_pc = "accumulating"
    /\ ret.calls < max
    /\ Becomes(s)
    /\ ret' = Call(op, arg, 0, <<>>, <<>>, <<>>, <<>>, NoVal)
    /\ UNCHANGED <<version, trkVars, svVars, ssVars, asmVars, origin_code, resume_counter, finalized, fc_pc>>

AccumulateUpTo(s, op, max) == AccumulateArg(s, op, 0, max)

Accumulate(s, op) == AccumulateUpTo(s, op, MaxCalls)

GenLoadFastCall == \E name \in {"t"} : Accumulate(GenLoadFast(Self, name), "gen_load_fast")

GenStoreFastCall == \E name \in {"x"} : Accumulate(GenStoreFast(Self, name), "gen_store_fast")

GenLoadConstCall == \E value \in ConstObjects : Accumulate(GenLoadConst(Self, value), "gen_load_const")

\* the arguments given to the two function makers
StackSizes == 0..MaxStackSize
InputLists == {<<>>, <<"y", "x">>, <<"t">>}
OutputLists == {<<>>, <<"y", "g">>, <<"c", "z">>}

GenResumeFnAtCall ==
    \E index \in 0..MaxBody, stack_size \in StackSizes : GenResumeFnAt(index, stack_size)

CreateFnWithSpecificIoCall ==
    \E inputs \in InputLists, outputs \in OutputLists : CreateFnWithSpecificIo(inputs, outputs)

FacadeInit ==
    /\ version \in FacadeVersions
    /\ StackIdle
    /\ AsmIdle
    /\ TrackerIdle
    /\ SvarintIdle
    /\ resume_counter = 0
    /\ \E c \in OriginCodes, disable_eval_frame \in BOOLEAN, clean \in BOOLEAN :
         /\ origin_code = c
         /\ \E s \in {NewPyCodeGen(c, disable_eval_frame, clean)} :
              /\ code_options = s.code_options
              /\ instructions = s.instructions
              /\ f_globals = s.f_globals
              /\ next_id = s.next_id
    /\ finalized = FALSE
    /\ ret = Constructed
    /\ fc_pc = "accumulating"

FacadeNext ==
    \/ DropFacade
    \/ NewFacade
    \/ GenLoadFastCall
    \/ GenStoreFastCall
    \/ GenLoadConstCall
    \/ GenResumeFnAtCall
    \/ CreateFnWithSpecificIoCall

Spec_facade == FacadeInit /\ [][FacadeNext]_vars

\* ---- what the claims speak of
\* gen_resume_fn_at has been called at an index that is not RETURN_VALUE
ResumeMade ==
    /\ fc_pc \in {"returned", "raised"}
    /\ ret.op = "gen_resume_fn_at"
    /\ origin_code.instrs[ret.index + 1].opname # "RETURN_VALUE"

\* the live-in names the scan finds at the index of the call
LiveIn == AnalysisInputs(GetInstructions(origin_code, 0), ret.index)

\* the name the call minted
MintedIndex == resume_counter - 1

NoDuplicate(s) == \A i, j \in 1..Len(s) : s[i] = s[j] => i = j

\* s holds exactly the names of t that are not in u, in the order of t
RestOf(s, t, u) ==
    /\ \A k \in 1..Len(t) : InSeq(t[k], s) <=> ~InSeq(t[k], u)
    /\ \A i \in 1..Len(s) : InSeq(s[i], t)
    /\ \A i, j \in 1..Len(s) : i < j => ListIndex(t, s[i]) < ListIndex(t, s[j])

\* C6: after gen_resume_fn_at(index, stack_size) at an index that is not
\* RETURN_VALUE, the argument count is stack_size plus the number of live-in
\* names; the local-slot table is the stack_size placeholder names in order,
\* then the live-in names in scan order, then the original local names that are
\* not live-in in original order, with no duplicate; the returned inputs are
\* the live-in names.
C6_ResumeSignature ==
    ResumeMade =>
        LET table == code_options.co_varnames
            k == ret.stack_size
            live == LiveIn
        IN  /\ code_options.co_argcount = k + Len(live)
            /\ Len(table) >= k + Len(live)
            /\ \A i \in 1..k : table[i] = StackArgStr(MintedIndex, i - 1)
            /\ \A i \in 1..Len(live) : table[k + i] = live[i]
            /\ RestOf(SubSeq(table, k + Len(live) + 1, Len(table)),
                      origin_code.co_varnames, live)
            /\ NoDuplicate(table)
            /\ fc_pc = "returned" =>
                 /\ ret.inputs = live
                 /\ ret.fn[1].code.co_argcount = k + Len(live)
                 /\ ret.fn[1].code.co_varnames = table

\* C6 witness: a resume function with two placeholders and two live-in names
\* whose scan order differs from their order in the original table
C6_Witness ==
    /\ ResumeMade
    /\ fc_pc = "returned"
    /\ ret.stack_size = 2
    /\ ret.inputs = <<"y", "x">>
    /\ resume_counter = 2

\* the position reached from position p of body by executing until an
\* instruction after the entry part (the first k + 1 instructions) is reached
RECURSIVE EntryReaches(_, _, _)
EntryReaches(body, k, p) ==
    IF p > k + 1 THEN p
    ELSE IF body[p].opname \in {"JUMP_FORWARD", "JUMP_ABSOLUTE"}
    THEN PosOfId(body, body[p].jump_to)
    ELSE EntryReaches(body, k, p + 1)

\* C7: the body built by gen_resume_fn_at is stack_size loads of the
\* placeholder slots in order, one unconditional jump (JUMP_FORWARD on 3.11,
\* JUMP_ABSOLUTE otherwise) whose target is the original instruction at index,
\* then the complete original sequence in order; from entry the first original
\* instruction executed is the one at index.
C7_ResumeBody ==
    ResumeMade =>
        LET body == instructions
            k == ret.stack_size
            orig == origin_code.instrs
        IN  /\ Len(body) = k + 1 + Len(orig)
            /\ \A i, j \in 1..Len(body) : body[i].id = body[j].id => i = j
            /\ \A i \in 1..k :
                 /\ body[i].opname = "LOAD_FAST"
                 /\ body[i].argval = StackArgStr(MintedIndex, i - 1)
                 /\ body[i].jump_to = 0
            /\ body[k + 1].opname = (IF version >= 311 THEN "JUMP_FORWARD" ELSE "JUMP_ABSOLUTE")
            /\ body[k + 1].jump_to = body[k + 1 + ret.index + 1].id
            /\ \A i \in 1..Len(orig) :
                 /\ body[k + 1 + i].opname = orig[i].opname
                 /\ body[k + 1 + i].argval = orig[i].argval
                 /\ body[k + 1 + i].jump_to =
                      (IF orig[i].jump_pos = 0 THEN 0 ELSE body[k + 1 + orig[i].jump_pos].id)
            /\ EntryReaches(body, k, 1) = k + 1 + ret.index + 1

\* C7 witness: a resume function on 3.11 entered past the first original
\* instruction, with two stack values
C7_Witness ==
    /\ ResumeMade
    /\ fc_pc = "returned"
    /\ version = 311
    /\ ret.index = 1
    /\ ret.stack_size = 2

\* one of the two function makers has finalized its unit
UnitMade ==
    /\ fc_pc \in {"returned", "raised"}
    /\ ret.op \in {"gen_resume_fn_at", "create_fn_with_specific_io"}
    /\ finalized

\* C8 (as amended): gen_resume_fn_at and create_fn_with_specific_io raise
\* NotImplementException, returning no function, exactly when the finalized
\* unit has a free-variable slot; a unit that has only cell slots is returned.
C8_FreeVarsOnly ==
    UnitMade =>
        IF code_options.co_freevars # <<>>
        THEN fc_pc = "raised" /\ ret.error = "NotImplementException" /\ ret.fn = <<>>
        ELSE fc_pc = "returned" /\ ret.error = NoVal /\ Len(ret.fn) = 1

\* C8 witness: create_fn_with_specific_io on a closure's code raised
C8_Witness ==
    /\ UnitMade
    /\ ret.op = "create_fn_with_specific_io"
    /\ origin_code.co_freevars = <<"f">>
    /\ ret.error = "NotImplementException"

\* C8 (as stated): the two function makers raise NotImplementException
\* whenever the unit has any closure slot, a cell slot or a free-variable slot.
C8_AnyClosureSlot ==
    (UnitMade /\ (code_options.co_cellvars # <<>> \/ code_options.co_freevars # <<>>))
        => (ret.error = "NotImplementException" /\ ret.fn = <<>>)

\* C9: a gen_resume_fn_at call whose index is at RETURN_VALUE returns
\* (None, empty ordered set), runs no finalization and leaves the resume-name
\* counter unchanged.
C9_ReturnValueNoResume ==
    [][(/\ fc_pc = "accumulating"
        /\ fc_pc' \in {"returned", "raised"}
        /\ ret'.op = "gen_resume_fn_at"
        /\ origin_code.instrs[ret'.index + 1].opname = "RETURN_VALUE")
       => (/\ fc_pc' = "returned"
           /\ ret'.fn = <<>>
           /\ ret'.inputs = <<>>
           /\ ret'.error = NoVal
           /\ finalized' = finalized
           /\ resume_counter' = resume_counter)]_vars

\* C28: a gen_resume_fn_at call whose index is at RETURN_VALUE (no resume is
\* needed) leaves the accumulated instruction list and the code options of
\* the facade as they were before the call.
C28_NoResumeNoChange ==
    [][(/\ fc_pc = "accumulating"
        /\ fc_pc' = "returned"
        /\ ret'.op = "gen_resume_fn_at"
        /\ ret'.fn = <<>>
        /\ origin_code.instrs[ret'.index + 1].opname = "RETURN_VALUE")
       => (/\ instructions' = instructions
           /\ code_options' = code_options)]_vars

\* C9 witness: gen_resume_fn_at was called at the final RETURN_VALUE of a
\* three-instruction original, with a stack value, after one name was minted
C9_Witness ==
    /\ fc_pc = "returned"
    /\ ret.op = "gen_resume_fn_at"
    /\ ret.index = 2
    /\ origin_code.instrs[ret.index + 1].opname = "RETURN_VALUE"
    /\ ret.stack_size = 1
    /\ resume_counter = 1

\* an instruction without its operand
Shape(instr) == [id |-> instr.id, opname |-> instr.opname,
                 argval |-> instr.argval, jump_to |-> instr.jump_to]

\* C10: a create_fn_with_specific_io(inputs, outputs) call whose output names
\* all resolve appends, after the accumulated instructions, one load per
\* output name in order, BUILD_TUPLE len(outputs), RETURN_VALUE; it sets the
\* argument count to len(inputs) and the local-slot table to the inputs
\* followed by the original local names not among them, in original order.
C10_IoTrailer ==
    [][(/\ fc_pc = "accumulating"
        /\ fc_pc' \in {"returned", "raised"}
        /\ ret'.op = "create_fn_with_specific_io"
        /\ ret'.error # "InnerError")
       => LET n == Len(instructions)
              m == Len(ret'.outputs_arg)
              k == Len(ret'.inputs_arg)
              table == code_options'.co_varnames
          IN  /\ Len(instructions') = n + m + 2
              /\ \A i \in 1..n : Shape(instructions'[i]) = Shape(instructions[i])
              /\ \A i \in 1..m :
                   /\ instructions'[n + i].opname \in {"LOAD_FAST", "LOAD_DEREF", "LOAD_GLOBAL"}
                   /\ instructions'[n + i].argval = ret'.outputs_arg[i]
              /\ instructions'[n + m + 1].opname = "BUILD_TUPLE"
              /\ instructions'[n + m + 1].arg = m
              /\ instructions'[n + m + 2].opname = "RETURN_VALUE"
              /\ code_options'.co_argcount = k
              /\ SubSeq(table, 1, k) = ret'.inputs_arg
              /\ RestOf(SubSeq(table, k + 1, Len(table)),
                        origin_code.co_varnames, ret'.inputs_arg)]_vars

\* C10 witness: an extraction function with two inputs and two outputs was
\* made after a convenience call
C10_Witness ==
    /\ fc_pc = "returned"
    /\ ret.op = "create_fn_with_specific_io"
    /\ ret.calls = 2
    /\ ret.inputs_arg = <<"y", "x">>
    /\ ret.outputs_arg = <<"y", "g">>
    /\ Len(ret.fn) = 1

\* ======================================================= gen_loop_body_between
\* the longest loop body of the model
MaxLoopBody == 2

\* gen_pop_top()
GenPopTop(self) == AddInstr(self, "POP_TOP", NoArg, NoVal)

\* extend_instrs(instrs)
ExtendInstrs(self, instrs) ==
    Only({[s EXCEPT !.instructions = @ \o instrs] : s \in {self}})

\* origin_instrs[start:end]
Slice(s, start, end) == SubSeq(s, start + 1, end)

\* the local names of the instructions, in instruction order, for one opname
RECURSIVE LocalNames(_, _)
LocalNames(instrs, opname) ==
    IF instrs = <<>> THEN <<>>
    ELSE OrderedUnion(IF Head(instrs).opname = opname THEN <<Head(instrs).argval>> ELSE <<>>,
                      LocalNames(Tail(instrs), opname))

\* analysis_inputs_outputs(instructions, start, end): the local names read or
\* written by instructions[start:end], reads first
AnalysisInputsOutputs(instrs, start, end) ==
    OrderedUnion(LocalNames(Slice(instrs, start, end), "LOAD_FAST"),
                 LocalNames(Slice(instrs, start, end), "STORE_FAST"))

\* variant: only the jumps to the loop header are redirected
RedirectHeaderOnly(instrs, for_iter, out_loop, nop_for_continue, nop_for_break) ==
    [i \in 1..Len(instrs) |->
        IF instrs[i].jump_to = for_iter
        THEN [instrs[i] EXCEPT !.jump_to = nop_for_continue]
        ELSE instrs[i]]

\* `for instr in self._instructions:` with its two tests, in their order;
\* instructions and anchors are named by identity, 0 is None
RedirectJumps(instrs, for_iter, out_loop, nop_for_continue, nop_for_break) ==
    [i \in 1..Len(instrs) |->
        LET first == IF instrs[i].jump_to = for_iter THEN nop_for_continue
                     ELSE instrs[i].jump_to
        IN  [instrs[i] EXCEPT !.jump_to = IF first = out_loop THEN nop_for_break
                                           ELSE first]]

\* the facade value before the final create_fn_with_specific_io: placeholder,
\* body, break anchor, flag store, placeholder, continue anchor, pop, and the
\* redirected jumps. nop_for_break is the instruction appended after the body
\* and nop_for_continue the one appended after the three flag instructions.
LoopBody(self, origin, start, end) ==
    ExtendInstrs(GenLoadConst([self EXCEPT !.next_id = @ + Len(origin) + 1], "None"),
                 Slice(origin, start, end))

\* variant: no second placeholder after the flag is stored
LoopFlaggedNoBalance(body) ==
    GenStoreFast(GenLoadConst(AddInstr(body, "NOP", NoArg, NoVal), "False"),
                 "_break_flag")

LoopFlagged(body) ==
    GenLoadConst(
        GenStoreFast(GenLoadConst(AddInstr(body, "NOP", NoArg, NoVal), "False"),
                     "_break_flag"),
        "None")

LoopUnit(self, origin, for_iter, start, end) ==
    Only({Only({Only({[popped EXCEPT !.instructions =
                          RedirectJumps(@, origin[for_iter + 1].id,
                                        origin[for_iter + 1].jump_to,
                                        flagged.next_id, body.next_id)] :
                      popped \in {GenPopTop(AddInstr(flagged, "NOP", NoArg, NoVal))}}) :
                flagged \in {LoopFlagged(body)}}) :
          body \in {LoopBody(self, origin, start, end)}})

\* gen_loop_body_between(for_iter, start, end); for_iter is given as the index
\* of the loop header in the original instruction list. The call record keeps
\* start in its index field and end in its stack_size field.
GenLoopBodyBetween(for_iter, start, end) ==
    /\ for_iter < Len(origin_code.instrs)
    /\ start <= end
    /\ end <= Len(origin_code.instrs)
    /\ \E origin \in {GetInstructions(origin_code, next_id)} :
         /\ origin[for_iter + 1].jump_to # 0
         /\ \E inputs \in {Append(AnalysisInputsOutputs(origin, start, end), "_break_flag")} :
              CreateFnFrom(LoopUnit(Self, origin, for_iter, start, end),
                           "gen_loop_body_between", start, end, inputs, inputs, inputs)

\* ---- the loops of the model: FOR_ITER, the body, the jump back, the exit
\* body instructions of a loop with n of them: local accesses, a conditional
\* continue, a conditional break, a jump inside the body (to the jump back)
LoopTemplates(n) ==
    {[opname |-> "LOAD_FAST", argval |-> "x", jump_pos |-> 0],
     [opname |-> "STORE_FAST", argval |-> "y", jump_pos |-> 0],
     [opname |-> "POP_JUMP_IF_FALSE", argval |-> NoVal, jump_pos |-> 1],
     [opname |-> "POP_JUMP_IF_TRUE", argval |-> NoVal, jump_pos |-> n + 3],
     [opname |-> "JUMP_IF_TRUE_OR_POP", argval |-> NoVal, jump_pos |-> n + 2]}

LoopInstrs ==
    UNION {{<<[opname |-> "FOR_ITER", argval |-> NoVal, jump_pos |-> n + 3]>>
            \o b
            \o <<[opname |-> "JUMP_ABSOLUTE", argval |-> NoVal, jump_pos |-> 1],
                 [opname |-> "RETURN_VALUE", argval |-> NoVal, jump_pos |-> 0]>> :
            b \in [1..n -> LoopTemplates(n)]} :
           n \in 1..MaxLoopBody}

LoopCodes ==
    {[co_argcount |-> 1,
      co_nlocals  |-> Len(OriginVarnames),
      co_varnames |-> OriginVarnames,
      co_names    |-> <<"g">>,
      co_consts   |-> <<"None">>,
      co_cellvars |-> <<>>,
      co_freevars |-> <<>>,
      co_name     |-> <<"fn">>,
      instrs      |-> l] :
     l \in LoopInstrs}

\* a new facade on the frame of a function with a loop
NewLoopFacade ==
    /\ fc_pc = "idle"
    /\ resume_counter < CounterCap
    /\ \E c \in LoopCodes, disable_eval_frame \in BOOLEAN, clean \in BOOLEAN :
         /\ origin_code' = c
         /\ Becomes(NewPyCodeGen(c, disable_eval_frame, clean))
    /\ finalized' = FALSE
    /\ ret' = Constructed
    /\ fc_pc' = "accumulating"
    /\ UNCHANGED <<version, trkVars, svVars, ssVars, asmVars, resume_counter>>

\* the loop header is the first original instruction; the body starts after it
\* (or at it) and ends before the exit (or before the jump back)
GenLoopBodyBetweenCall ==
    /\ fc_pc = "accumulating"
    /\ \E start \in 0..1, back \in 0..1 :
         GenLoopBodyBetween(0, start, Len(origin_code.instrs) - 1 - back)

LoopInit ==
    /\ version \in FacadeVersions
    /\ StackIdle
    /\ AsmIdle
    /\ TrackerIdle
    /\ SvarintIdle
    /\ resume_counter = 0
    /\ \E c \in LoopCodes, disable_eval_frame \in BOOLEAN, clean \in BOOLEAN :
         /\ origin_code = c
         /\ \E s \in {NewPyCodeGen(c, disable_eval_frame, clean)} :
              /\ code_options = s.code_options
              /\ instructions = s.instructions
              /\ f_globals = s.f_globals
              /\ next_id = s.next_id
    /\ finalized = FALSE
    /\ ret = Constructed
    /\ fc_pc = "accumulating"

LoopNext ==
    \/ DropFacade
    \/ NewLoopFacade
    \/ GenStoreFastCall
    \/ GenLoopBodyBetweenCall

Spec_loop == LoopInit /\ [][LoopNext]_vars

\* the instruction of the list with identity id
InstrOfId(instrs, id) == instrs[PosOfId(instrs, id)]

\* C11: a gen_loop_body_between call (header: the first original instruction)
\* returns as its input names the output names its trailer loads; in the new
\* unit no jump targets the loop header or the loop exit: the body jumps that
\* targeted the header target the continue anchor, those that targeted the exit
\* target the break anchor, the others are untouched, and both anchors are NOP
\* instructions of the unit (break anchor right after the body, continue anchor
\* after the three flag instructions).
C11_LoopAnchors ==
    [][(/\ fc_pc = "accumulating"
        /\ fc_pc' \in {"returned", "raised"}
        /\ ret'.op = "gen_loop_body_between")
       => LET origin == GetInstructions(origin_code, next_id)
              n == Len(instructions)
              len == ret'.stack_size - ret'.index
              m == Len(ret'.outputs_arg)
              for_iter == origin[1].id
              out_loop == origin[1].jump_to
              nop_for_break == instructions'[n + len + 2]
              nop_for_continue == instructions'[n + len + 6]
          IN  /\ fc_pc' = "returned" => ret'.inputs = ret'.outputs_arg
              /\ Len(instructions') = n + len + 7 + m + 2
              /\ \A i \in 1..m :
                   /\ instructions'[n + len + 7 + i].opname = "LOAD_FAST"
                   /\ instructions'[n + len + 7 + i].argval = ret'.outputs_arg[i]
              /\ instructions'[n + len + 7 + m + 1].opname = "BUILD_TUPLE"
              /\ \A i \in 1..Len(instructions') :
                   instructions'[i].jump_to \notin {for_iter, out_loop}
              /\ nop_for_break.opname = "NOP"
              /\ nop_for_continue.opname = "NOP"
              /\ nop_for_break.id # nop_for_continue.id
              /\ \A k \in 1..len :
                   LET old == origin[ret'.index + k]
                       new == instructions'[n + 1 + k]
                   IN  /\ new.id = old.id
                       /\ new.jump_to = (CASE old.jump_to = for_iter -> nop_for_continue.id
                                           [] old.jump_to = out_loop -> nop_for_break.id
                                           [] OTHER -> old.jump_to)]_vars

\* C11 witness: a loop-body function was returned whose body has a conditional
\* continue, now aimed at one NOP of the unit, and a conditional break, now
\* aimed at another
C11_Witness ==
    /\ fc_pc = "returned"
    /\ ret.op = "gen_loop_body_between"
    /\ \E i, j \in 1..Len(instructions) :
         /\ instructions[i].opname = "POP_JUMP_IF_FALSE"
         /\ instructions[j].opname = "POP_JUMP_IF_TRUE"
         /\ instructions[i].jump_to # instructions[j].jump_to
         /\ InstrOfId(instructions, instructions[i].jump_to).opname = "NOP"
         /\ InstrOfId(instructions, instructions[j].jump_to).opname = "NOP"

\* the sum of the stack effects of instrs[a..b], run one after the other
RECURSIVE RunEffect(_, _, _)
RunEffect(instrs, a, b) ==
    IF a > b THEN 0
    ELSE StackEffect(instrs[a].opname, FALSE) + RunEffect(instrs, a + 1, b)

\* the opname and operand of an instruction
Does(instr, opname, argval) == instr.opname = opname /\ instr.argval = argval

\* C25: gen_loop_body_between appends, in this order: LOAD_CONST None, the
\* loop body, the break anchor NOP, LOAD_CONST False, STORE_FAST _break_flag,
\* LOAD_CONST None, the continue anchor NOP, POP_TOP, the output trailer. From
\* the break anchor the unit runs straight to the trailer and stores False
\* into _break_flag on the way; from the continue anchor on nothing stores to
\* _break_flag; a break path (entering one value lower) and a continue path
\* reach the trailer at the same stack depth.
C25_LoopLayout ==
    [][(/\ fc_pc = "accumulating"
        /\ fc_pc' \in {"returned", "raised"}
        /\ ret'.op = "gen_loop_body_between")
       => LET origin == GetInstructions(origin_code, next_id)
              n == Len(instructions)
              len == ret'.stack_size - ret'.index
              m == Len(ret'.outputs_arg)
              brk == n + len + 2
              cont == n + len + 6
              trailer == n + len + 8
              new == instructions'
          IN  /\ Len(new) = n + len + 7 + m + 2
              /\ \A k \in 1..n : new[k].id = instructions[k].id
              /\ Does(new[n + 1], "LOAD_CONST", "None")
              /\ \A k \in 1..len : new[n + 1 + k].id = origin[ret'.index + k].id
              /\ Does(new[brk], "NOP", NoVal)
              /\ Does(new[brk + 1], "LOAD_CONST", "False")
              /\ Does(new[brk + 2], "STORE_FAST", "_break_flag")
              /\ Does(new[brk + 3], "LOAD_CONST", "None")
              /\ Does(new[cont], "NOP", NoVal)
              /\ Does(new[cont + 1], "POP_TOP", NoVal)
              /\ \A i \in 1..m : Does(new[trailer + i - 1], "LOAD_FAST", ret'.outputs_arg[i])
              /\ new[trailer + m].opname = "BUILD_TUPLE"
              /\ new[trailer + m + 1].opname = "RETURN_VALUE"
              /\ \A k \in brk..(trailer + m) : new[k].jump_to = 0
              /\ \A k \in cont..Len(new) : ~Does(new[k], "STORE_FAST", "_break_flag")
              /\ RunEffect(new, brk, trailer - 1) = RunEffect(new, cont, trailer - 1) + 1]_vars

\* C25 witness: a loop-body function was returned; in its unit a conditional
\* break is aimed at the NOP before the flag store and a conditional continue
\* at the NOP before the POP_TOP.
C25_Witness ==
    /\ fc_pc = "returned"
    /\ ret.op = "gen_loop_body_between"
    /\ \E i, j \in 1..Len(instructions) :
         /\ instructions[i].jump_to # 0
         /\ instructions[j].jump_to # 0
         /\ \E b, c \in 1..(Len(instructions) - 1) :
              /\ instructions[b].id = instructions[i].jump_to
              /\ instructions[c].id = instructions[j].jump_to
              /\ instructions[b].opname = "NOP"
              /\ Does(instructions[b + 1], "LOAD_CONST", "False")
              /\ instructions[c].opname = "NOP"
              /\ instructions[c + 1].opname = "POP_TOP"

\* C27: once create_fn_with_specific_io (called directly or by
\* gen_loop_body_between) has set the local-slot table and finalized the unit,
\* every name a LOAD_FAST or STORE_FAST of the instruction list refers to is in
\* the table of the finalized unit.
C27_LocalsInTable ==
    (/\ fc_pc \in {"returned", "raised"}
     /\ finalized
     /\ ret.op \in {"create_fn_with_specific_io", "gen_loop_body_between"})
    => \A i \in 1..Len(instructions) :
          instructions[i].opname \in {"LOAD_FAST", "STORE_FAST"}
              => InSeq(instructions[i].argval, code_options.co_varnames)

\* ============================================================ gen_load_const
\* the longest sequence of gen_load_const calls
MaxConstCalls == 3

\* the constant objects loaded in the model
PoolObjects == {"None", "one", "true", "zero"}

\* the constant pools the facade starts from: no object twice
InitialPools == {<<"None">>, <<"None", "one">>, <<"true", "None">>}

PoolCodes ==
    {[co_argcount |-> 1,
      co_nlocals  |-> Len(OriginVarnames),
      co_varnames |-> OriginVarnames,
      co_names    |-> <<"g">>,
      co_consts   |-> pool,
      co_cellvars |-> <<>>,
      co_freevars |-> <<>>,
      co_name     |-> <<"fn">>,
      instrs      |-> <<[opname |-> "RETURN_VALUE", argval |-> NoVal, jump_pos |-> 0]>>] :
     pool \in InitialPools}

\* the facade just constructed on a frame of one of the codes
Fresh(codes, disables) ==
    /\ version \in FacadeVersions
    /\ StackIdle
    /\ AsmIdle
    /\ resume_counter = 0
    /\ \E c \in codes, disable_eval_frame \in disables :
       \E clean \in (IF disable_eval_frame THEN BOOLEAN ELSE {FALSE}) :
         /\ origin_code = c
         /\ \E s \in {NewPyCodeGen(c, disable_eval_frame, clean)} :
              /\ code_options = s.code_options
              /\ instructions = s.instructions
              /\ f_globals = s.f_globals
              /\ next_id = s.next_id
    /\ finalized = FALSE
    /\ ret = Constructed
    /\ fc_pc = "accumulating"

GenLoadConstSeq ==
    \E value \in PoolObjects :
        AccumulateUpTo(GenLoadConst(Self, value), "gen_load_const", MaxConstCalls)

ConstInit == Fresh(PoolCodes, BOOLEAN) /\ TrackerIdle /\ SvarintIdle

ConstNext == GenLoadConstSeq

Spec_consts == ConstInit /\ [][ConstNext]_vars

\* the last element of a non-empty list
Last(s) == s[Len(s)]

\* C12: the constant pool never holds the same object twice; a gen_load_const
\* of an object already in the pool leaves the pool as it is, a load of any
\* other object (also one equal to an entry, as True when 1 is there) appends
\* it, and the operand of the emitted LOAD_CONST is the index of the entry
\* that is the loaded object.
C12_ConstPool ==
    [][(ret'.op = "gen_load_const" /\ ret'.calls = ret.calls + 1)
       => LET value == Last(instructions').argval
              pool == code_options.co_consts
          IN  /\ NoDuplicate(code_options'.co_consts)
              /\ Len(instructions') = Len(instructions) + 1
              /\ Last(instructions').opname = "LOAD_CONST"
              /\ code_options'.co_consts =
                     (IF \E i \in 1..Len(pool) : pool[i] = value THEN pool
                      ELSE Append(pool, value))
              /\ code_options'.co_consts[Last(instructions').arg + 1] = value]_vars

\* C12 witness: True was loaded into a pool that held the integer 1, and now
\* sits behind it
C12_Witness ==
    /\ ret.op = "gen_load_const"
    /\ Last(instructions).argval = "true"
    /\ \E i \in 1..Len(code_options.co_consts) :
         /\ code_options.co_consts[i] = "one"
         /\ Last(instructions).arg + 1 > i
         /\ code_options.co_consts[Last(instructions).arg + 1] = "true"

\* ================================================= the name-based operations
\* the longest sequence of name-based calls
MaxNameCalls == 2

\* a local name of the original code and a name new to every table
PoolNames == {"x", "t"}

\* the original codes: plain, with a cell, with a free variable
NameCodes ==
    {[co_argcount |-> 1,
      co_nlocals  |-> Len(OriginVarnames),
      co_varnames |-> OriginVarnames,
      co_names    |-> <<"g">>,
      co_consts   |-> <<"None">>,
      co_cellvars |-> cl.cells,
      co_freevars |-> cl.frees,
      co_name     |-> <<"fn">>,
      instrs      |-> <<[opname |-> "RETURN_VALUE", argval |-> NoVal, jump_pos |-> 0]>>] :
     cl \in OriginClosures}

\* the operations that take a name only, with the instruction each one emits
NameOps ==
    {[op |-> "gen_load_fast", opname |-> "LOAD_FAST", table |-> "co_varnames"],
     [op |-> "gen_store_fast", opname |-> "STORE_FAST", table |-> "co_varnames"],
     [op |-> "gen_load_deref", opname |-> "LOAD_DEREF", table |-> "co_cellvars"],
     [op |-> "gen_store_deref", opname |-> "STORE_DEREF", table |-> "co_cellvars"],
     [op |-> "gen_store_global", opname |-> "STORE_GLOBAL", table |-> "co_names"],
     [op |-> "gen_load_attr", opname |-> "LOAD_ATTR", table |-> "co_names"],
     [op |-> "gen_load_method", opname |-> "LOAD_METHOD", table |-> "co_names"],
     [op |-> "gen_import_name", opname |-> "IMPORT_NAME", table |-> "co_names"],
     [op |-> "gen_delete_global", opname |-> "DELETE_GLOBAL", table |-> "co_names"]}

\* the call of the operation named op
NameCall(self, op, name) ==
    CASE op = "gen_load_fast" -> GenLoadFast(self, name)
      [] op = "gen_store_fast" -> GenStoreFast(self, name)
      [] op = "gen_load_deref" -> GenLoadDeref(self, name)
      [] op = "gen_store_deref" -> GenStoreDeref(self, name)
      [] op = "gen_store_global" -> GenStoreGlobal(self, name)
      [] op = "gen_load_attr" -> GenLoadAttr(self, name)
      [] op = "gen_load_method" -> GenLoadMethod(self, name)
      [] op = "gen_import_name" -> GenImportName(self, name)
      [] op = "gen_delete_global" -> GenDeleteGlobal(self, name)

GenNamedSeq ==
    \E o \in NameOps, name \in PoolNames :
        AccumulateUpTo(NameCall(Self, o.op, name), o.op, MaxNameCalls)

GenLoadGlobalSeq ==
    \E name \in PoolNames, push_null \in BOOLEAN :
        AccumulateArg(GenLoadGlobal(Self, name, push_null), "gen_load_global",
                      IF push_null THEN 1 ELSE 0, MaxNameCalls)

NameInit == Fresh(NameCodes, BOOLEAN) /\ TrackerIdle /\ SvarintIdle

NameNext == GenNamedSeq \/ GenLoadGlobalSeq

Spec_names == NameInit /\ [][NameNext]_vars

\* the table an emitted instruction's name lives in
TableOf(opname) ==
    CASE opname \in {"LOAD_FAST", "STORE_FAST"} -> "co_varnames"
      [] opname \in {"LOAD_DEREF", "STORE_DEREF"} -> "co_cellvars"
      [] OTHER -> "co_names"

NameTables == {"co_varnames", "co_cellvars", "co_names"}

\* C13: a name-based convenience call leaves the local-slot, captured-slot and
\* name tables duplicate-free; it appends the name to its own table when the
\* table lacks it and changes no table otherwise (so entries keep their
\* positions and new names come in first-reference order); the operand of the
\* emitted instruction is the position of the name in its table, and for
\* LOAD_GLOBAL on 3.11 twice the position plus the push-null bit.
C13_NamePools ==
    [][(/\ ret'.calls = ret.calls + 1
        /\ ret'.op \in {o.op : o \in NameOps} \cup {"gen_load_global"})
       => LET instr == Last(instructions')
              name == instr.argval
              table == TableOf(instr.opname)
              before == code_options[table]
              after == code_options'[table]
              idx == ListIndex(after, name)
          IN  /\ Len(instructions') = Len(instructions) + 1
              /\ \A o \in NameOps : ret'.op = o.op =>
                     (instr.opname = o.opname /\ table = o.table)
              /\ ret'.op = "gen_load_global" => instr.opname = "LOAD_GLOBAL"
              /\ \A t \in NameTables : NoDuplicate(code_options'[t])
              /\ \A t \in NameTables \ {table} : code_options'[t] = code_options[t]
              /\ after = (IF InSeq(name, before) THEN before ELSE Append(before, name))
              /\ after[idx + 1] = name
              /\ instr.arg = (IF instr.opname = "LOAD_GLOBAL" /\ version >= 311
                              THEN 2 * idx + ret'.index ELSE idx)]_vars

\* C13 witness: on 3.11 a name new to the name table was first stored as a
\* global and then loaded with push_null, from the slot after the original one
C13_Witness ==
    /\ version >= 311
    /\ ret.op = "gen_load_global"
    /\ ret.calls = 2
    /\ ret.index = 1
    /\ code_options.co_names = <<"g", "t">>
    /\ Last(instructions).argval = "t"
    /\ Last(instructions).arg = 3
    /\ instructions[Len(instructions) - 1].opname = "STORE_GLOBAL"

\* =================================================================== trackers
\* the most trackers in a graph
MaxTrackers == 3

\* the Tracker subclasses
LeafKinds == {"Local", "Cell", "Global", "Builtin", "Const"}
ParentKinds == {"GetAttr", "GetItem", "GetIter"}

\* a tracker: its class, the positions of the trackers of its inputs, and its
\* name, attr, key or value
Node(kind, inputs, name) == [kind |-> kind, inputs |-> inputs, name |-> name]

\* ---- is_traceable()
RECURSIVE IsTraceable(_, _)

\* Tracker.is_traceable: every input's tracker is traceable
InputsTraceable(nodes, i) ==
    \A k \in 1..Len(nodes[i].inputs) : IsTraceable(nodes, nodes[i].inputs[k])

\* variant: DummyTracker does not override is_traceable
DummyIsTraceableByInputs(nodes, i) == InputsTraceable(nodes, i)

\* DummyTracker.is_traceable
DummyIsTraceable(nodes, i) == FALSE

\* DanglingTracker.is_traceable
DanglingIsTraceable(nodes, i) == FALSE

IsTraceable(nodes, i) ==
    CASE nodes[i].kind = "Dummy" -> DummyIsTraceable(nodes, i)
      [] nodes[i].kind = "Dangling" -> DanglingIsTraceable(nodes, i)
      [] OTHER -> InputsTraceable(nodes, i)

\* ---- gen_instructions(codegen); a raised InnerError is carried in the error
\* field of the facade value
\* gen_subscribe()
GenSubscribe(self) == AddInstr(self, "BINARY_SUBSCR", NoArg, NoVal)

RECURSIVE GenInstructions(_, _, _)

\* variant: the key is loaded before the container's instructions are made
GetItemKeyFirst(nodes, t, codegen) ==
    Only({IF parent.error # NoVal THEN parent ELSE GenSubscribe(parent) :
          parent \in {GenInstructions(nodes, t.inputs[1], GenLoadConst(codegen, t.name))}})

\* GetItemTracker.gen_instructions
GetItemGenInstructions(nodes, t, codegen) ==
    Only({IF parent.error # NoVal THEN parent
          ELSE GenSubscribe(GenLoadConst(parent, t.name)) :
          parent \in {GenInstructions(nodes, t.inputs[1], codegen)}})

GenInstructions(nodes, i, codegen) ==
    LET t == nodes[i]
    IN  CASE t.kind \in {"Dummy", "Dangling"} -> [codegen EXCEPT !.error = "InnerError"]
          [] t.kind = "Local" -> GenLoadFast(codegen, t.name)
          [] t.kind = "Cell" -> GenLoadDeref(codegen, t.name)
          [] t.kind \in {"Global", "Builtin"} -> GenLoadGlobal(codegen, t.name, FALSE)
          [] t.kind = "Const" -> GenLoadConst(codegen, t.name)
          [] t.kind = "GetItem" -> GetItemGenInstructions(nodes, t, codegen)
          [] OTHER ->
               Only({IF parent.error # NoVal THEN parent
                     ELSE CASE t.kind = "GetAttr" -> GenLoadAttr(parent, t.name)
                            [] t.kind = "GetIter" -> AddInstr(parent, "GET_ITER", NoArg, NoVal) :
                     parent \in {GenInstructions(nodes, t.inputs[1], codegen)}})

\* ---- trace_value_from_frame()
\* an expression is a list of tokens: a name the expression refers to, an
\* attribute after a dot, a quoted string, the repr of an object, a builtin
\* that is called, punctuation
Tok(k, v) == [k |-> k, v |-> v]

\* StringifyExpression(expr, free_vars)
StringifyExpression(expr, free_vars) ==
    [expr |-> expr, free_vars |-> free_vars, error |-> NoVal]

\* a raise
Raised(error) == [expr |-> <<>>, free_vars |-> {}, error |-> error]

\* union_free_vars(free_vars)
UnionFreeVars(free_vars) == free_vars

\* str.isidentifier() on the attribute names of the model
IsIdentifier(attr) == attr \in {"a"}

\* f"frame.{where}['{name}']"
FrameLookup(where, name) ==
    <<Tok("name", "frame"), Tok("attr", where), Tok("punct", "["),
      Tok("str", name), Tok("punct", "]")>>

\* f"builtins.__dict__[{name}]"
BuiltinLookup(name) ==
    <<Tok("name", "builtins"), Tok("attr", "__dict__"), Tok("punct", "["),
      Tok("name", name), Tok("punct", "]")>>

\* the expression GetAttrTracker builds around the object's expression
AttrStep(expr, attr) ==
    IF IsIdentifier(attr) THEN expr \o <<Tok("attr", attr)>>
    ELSE <<Tok("call", "getattr"), Tok("punct", "(")>> \o expr
         \o <<Tok("punct", ","), Tok("str", attr), Tok("punct", ")")>>

\* f"{expr}[{key!r}]"
ItemStep(expr, key) ==
    expr \o <<Tok("punct", "["), Tok("repr", key), Tok("punct", "]")>>

\* f"iter({expr})"
IterStep(expr) ==
    <<Tok("call", "iter"), Tok("punct", "(")>> \o expr \o <<Tok("punct", ")")>>

\* what reading the attribute expr of a variable can do: the class has no such
\* attribute, the attribute holds a text of the variable's own, or it holds
\* the expression traced for the variable
VariableExprs == {"absent", "own", "traced"}

\* variant: DummyTracker describes itself by an empty expression
DummyTraceEmpty == StringifyExpression(<<>>, {})

\* DummyTracker.trace_value_from_frame
DummyTrace == Raised("InnerError")

\* DanglingTracker.trace_value_from_frame
DanglingTrace == Raised("InnerError")

RECURSIVE TraceValueFromFrame(_, _, _)
TraceValueFromFrame(nodes, i, var_expr) ==
    LET t == nodes[i]
    IN  CASE t.kind = "Dummy" -> DummyTrace
          [] t.kind = "Dangling" -> DanglingTrace
          [] t.kind \in {"Local", "Cell"} ->
               StringifyExpression(FrameLookup("f_locals", t.name), {})
          [] t.kind = "Global" ->
               StringifyExpression(FrameLookup("f_globals", t.name), {})
          [] t.kind = "Builtin" ->
               StringifyExpression(BuiltinLookup(t.name), {"builtins"})
          [] t.kind = "Const" -> StringifyExpression(<<Tok("repr", t.name)>>, {})
          [] OTHER ->
               Only({IF parent.error # NoVal THEN parent
                     ELSE CASE t.kind = "GetAttr" ->
                                 StringifyExpression(AttrStep(parent.expr, t.name),
                                                     UnionFreeVars(parent.free_vars))
                            [] t.kind = "GetItem" ->
                                 StringifyExpression(ItemStep(parent.expr, t.name),
                                                     UnionFreeVars(parent.free_vars))
                            [] t.kind = "GetIter" ->
                                 IF var_expr = "absent" THEN Raised("AttributeError")
                                 ELSE StringifyExpression(
                                          IterStep(IF var_expr = "own"
                                                   THEN <<Tok("name", "iter_source.expr")>>
                                                   ELSE parent.expr),
                                          UnionFreeVars(parent.free_vars)) :
                     parent \in {TraceValueFromFrame(nodes, t.inputs[1], var_expr)}})

\* ---- the tracker graphs of the model
\* the trackers that can be made when i - 1 trackers exist
NodesAt(i) ==
    {Node("Local", <<>>, "x"), Node("Cell", <<>>, "c"), Node("Global", <<>>, "g"),
     Node("Builtin", <<>>, "len"), Node("Const", <<>>, "one"),
     Node("Dangling", <<>>, NoVal), Node("Dummy", <<>>, NoVal)}
    \cup {Node("GetAttr", <<p>>, attr) : p \in 1..(i - 1), attr \in {"a", "not-id"}}
    \cup {Node("GetItem", <<p>>, "zero") : p \in 1..(i - 1)}
    \cup {Node("GetIter", <<p>>, NoVal) : p \in 1..(i - 1)}
    \cup {Node("Dummy", <<p>>, NoVal) : p \in 1..(i - 1)}
    \cup {Node("Dummy", <<p, q>>, NoVal) : p \in 1..(i - 2), q \in 2..(i - 1)}

RECURSIVE TrackerGraphs(_)
TrackerGraphs(n) ==
    IF n = 0 THEN {<<>>}
    ELSE {Append(g, t) : g \in TrackerGraphs(n - 1), t \in NodesAt(n)}

\* the original code of the frame the trackers read
TrackerCodes == {c \in NameCodes : c.co_cellvars = <<"c">>}

\* the calls are made on the newest tracker of the graph
Newest == Len(trackers)

TrackerCall(op, traceable, traced, var_expr) ==
    [op |-> op, traceable |-> traceable, expr |-> traced.expr,
     free_vars |-> traced.free_vars, var_expr |-> var_expr, error |-> traced.error]

IsTraceableCall ==
    /\ tr_ret.op = "none"
    /\ tr_ret' = TrackerCall("is_traceable", IsTraceable(trackers, Newest),
                             Raised(NoVal), NoVal)
    /\ UNCHANGED <<version, svVars, ssVars, asmVars, facVars, trackers>>

GenInstructionsCall ==
    /\ tr_ret.op = "none"
    /\ \E codegen \in {GenInstructions(trackers, Newest, Self)} :
         /\ Becomes(codegen)
         /\ tr_ret' = TrackerCall("gen_instructions", FALSE, Raised(codegen.error), NoVal)
    /\ UNCHANGED <<version, svVars, ssVars, asmVars, trackers, origin_code, resume_counter,
                   finalized, ret, fc_pc>>

TraceValueFromFrameCall ==
    /\ tr_ret.op = "none"
    /\ \E var_expr \in VariableExprs :
         tr_ret' = TrackerCall("trace_value_from_frame", FALSE,
                               TraceValueFromFrame(trackers, Newest, var_expr), var_expr)
    /\ UNCHANGED <<version, svVars, ssVars, asmVars, facVars, trackers>>

TrackerInit ==
    /\ Fresh(TrackerCodes, {FALSE})
    /\ trackers \in UNION {TrackerGraphs(n) : n \in 1..MaxTrackers}
    /\ tr_ret = NoTrackerCall
    /\ SvarintIdle

TrackerNext == IsTraceableCall \/ GenInstructionsCall \/ TraceValueFromFrameCall

Spec_trackers == TrackerInit /\ [][TrackerNext]_vars

\* the trackers reached from the set S through the trackers of inputs
RECURSIVE ReachedFrom(_, _)
ReachedFrom(nodes, S) ==
    LET more == S \cup UNION {{nodes[i].inputs[k] : k \in 1..Len(nodes[i].inputs)} : i \in S}
    IN  IF more = S THEN S ELSE ReachedFrom(nodes, more)

\* C14: is_traceable() of a tracker is true exactly when neither it nor any
\* tracker reached through the trackers of its inputs is a DummyTracker or a
\* DanglingTracker (so it is false for a DummyTracker whatever its inputs).
C14_Traceable ==
    tr_ret.op = "is_traceable"
    => (tr_ret.traceable <=>
            \A j \in ReachedFrom(trackers, {Newest}) :
                trackers[j].kind \notin {"Dummy", "Dangling"})

\* C14 witness: is_traceable() returned false on a DummyTracker with two
\* inputs, both of them leaves read from the frame
C14_Witness ==
    /\ tr_ret.op = "is_traceable"
    /\ ~tr_ret.traceable
    /\ Len(trackers) = 3
    /\ trackers[3].kind = "Dummy"
    /\ trackers[3].inputs = <<1, 2>>
    /\ trackers[1].kind \in LeafKinds
    /\ trackers[2].kind \in LeafKinds

\* C15: on a tracker whose is_traceable() is false, gen_instructions and
\* trace_value_from_frame raise InnerError and return nothing.
C15_Untraceable ==
    (tr_ret.op \in {"gen_instructions", "trace_value_from_frame"}
     /\ ~IsTraceable(trackers, Newest))
    => (tr_ret.error = "InnerError" /\ tr_ret.expr = <<>> /\ tr_ret.free_vars = {})

\* C15 witness: trace_value_from_frame raised InnerError on an iterator-of an
\* attribute-of a DummyTracker
C15_Witness ==
    /\ tr_ret.op = "trace_value_from_frame"
    /\ tr_ret.error = "InnerError"
    /\ Len(trackers) = 3
    /\ trackers[3].kind = "GetIter" /\ trackers[3].inputs = <<2>>
    /\ trackers[2].kind = "GetAttr" /\ trackers[2].inputs = <<1>>
    /\ trackers[1].kind = "Dummy"

\* the newest tracker heads a chain of attribute, subscript and iterator
\* trackers that ends in a DummyTracker or a DanglingTracker
RECURSIVE ChainToUntraceable(_, _)
ChainToUntraceable(nodes, i) ==
    \/ nodes[i].kind \in {"Dummy", "Dangling"}
    \/ /\ nodes[i].kind \in ParentKinds
       /\ ChainToUntraceable(nodes, nodes[i].inputs[1])

\* C26: gen_instructions on a chain of attribute/subscript/iterator trackers
\* above a DummyTracker or DanglingTracker raises before anything is emitted:
\* the instruction list and the constant and name pools of the facade are after
\* the failed call what they were before it.
C26_FailedGenEmitsNothing ==
    [][(/\ tr_ret.op = "none"
        /\ tr_ret'.op = "gen_instructions"
        /\ ChainToUntraceable(trackers, Newest))
       => /\ tr_ret'.error = "InnerError"
          /\ instructions' = instructions
          /\ code_options' = code_options
          /\ next_id' = next_id]_vars

\* C26 witness: gen_instructions raised on a subscript-of an attribute-of a
\* DummyTracker
C26_Witness ==
    /\ tr_ret.op = "gen_instructions"
    /\ tr_ret.error = "InnerError"
    /\ Len(trackers) = 3
    /\ trackers[3].kind = "GetItem" /\ trackers[3].inputs = <<2>>
    /\ trackers[2].kind = "GetAttr" /\ trackers[2].inputs = <<1>>
    /\ trackers[1].kind = "Dummy"

\* the access step a single-parent tracker puts around its parent's expression
AccessStep(t, expr) ==
    CASE t.kind = "GetAttr" -> AttrStep(expr, t.name)
      [] t.kind = "GetItem" -> ItemStep(expr, t.name)
      [] t.kind = "GetIter" -> IterStep(expr)

\* the names an expression refers to
NamesOf(expr) == {expr[k].v : k \in {j \in 1..Len(expr) : expr[j].k = "name"}}

\* C16: trace_value_from_frame of a traceable GetAttrTracker, GetItemTracker
\* or GetIterTracker returns the expression traced for its parent inside
\* exactly one access step, with the parent's free variables, and the
\* expression refers to nothing but frame and those free variables.
C16_AccessStep ==
    (/\ tr_ret.op = "trace_value_from_frame"
     /\ trackers[Newest].kind \in ParentKinds
     /\ IsTraceable(trackers, Newest))
    => LET parent == TraceValueFromFrame(trackers, trackers[Newest].inputs[1],
                                         tr_ret.var_expr)
       IN  /\ tr_ret.error = NoVal
           /\ parent.error = NoVal
           /\ tr_ret.expr = AccessStep(trackers[Newest], parent.expr)
           /\ tr_ret.free_vars = parent.free_vars
           /\ NamesOf(tr_ret.expr) \subseteq {"frame"} \cup tr_ret.free_vars

\* ============================================================ gen_new_opcode
\* the longest instruction list handed to gen_new_opcode, and the most jumps
MaxFinalLen == 3
MaxFinalJumps == 2

\* instruction lists in which a jump may have a target that is not in the list
\* (written as position n + 1)
FinalLists(v, n, j) ==
    {s \in [1..n -> PlainInstrs \cup JumpInstrs(v, n + 1)] :
        /\ \A i \in 1..n : WellFormedJump(s[i], i)
        /\ Cardinality({i \in 1..n : s[i].jump_to # 0}) <= j}

\* gen_new_opcode after assemble (which reads opcodes and operands only):
\* stacksize is entered
FinalInit ==
    /\ version \in StackVersions
    /\ \E n \in 1..MaxFinalLen : \E instrs \in FinalLists(version, n, MaxFinalJumps) :
           StackEnter(instrs)
    /\ AsmIdle
    /\ FacadeIdle
    /\ TrackerIdle
    /\ SvarintIdle

\* stacksize returned: types.CodeType(...) is made and returned
MakeCodeType ==
    /\ ss_pc = "done"
    /\ ss_pc' = "made"
    /\ UNCHANGED <<version, trkVars, svVars, ss_instructions, max_stack, queue, visits, ss_result,
                   asmVars, facVars>>

FinalNext == StackStep \/ StackRaise \/ StackReturn \/ MakeCodeType

Spec_finalize == FinalInit /\ [][FinalNext]_vars

\* C17: gen_new_opcode makes no code object from an instruction list in which
\* some jump's target is not an instruction of the list, wherever the jump is.
C17_DanglingFails ==
    ss_pc = "made"
    => \A i \in 1..Len(ss_instructions) : ~JumpDangles(version, ss_instructions, i)

\* ======================================================= gen_load, gen_store
\* the longest sequence of gen_load / gen_store calls
MaxLoadStoreCalls == 2

\* a name in several tables, a local only, a global only, a name in no table
LoadStoreNames == {"x", "z", "g", "q"}

\* code objects in which x is a local and, or not, also a cell and a name
LoadStoreCodes ==
    {[co_argcount |-> 1,
      co_nlocals  |-> Len(OriginVarnames),
      co_varnames |-> OriginVarnames,
      co_names    |-> names,
      co_consts   |-> <<"None">>,
      co_cellvars |-> cells,
      co_freevars |-> <<>>,
      co_name     |-> <<"fn">>,
      instrs      |-> <<[opname |-> "RETURN_VALUE", argval |-> NoVal, jump_pos |-> 0]>>] :
     cells \in {<<>>, <<"x">>}, names \in {<<"g">>, <<"g", "x">>}}

\* the three tables of a code object or of the facade's code options
Tables(c) ==
    [co_cellvars |-> c.co_cellvars, co_varnames |-> c.co_varnames, co_names |-> c.co_names]

\* a gen_load or gen_store call that returned or raised
LoadStoreCall(s, op, name, code_arg) ==
    /\ fc_pc = "accumulating"
    /\ ret.calls < MaxLoadStoreCalls
    /\ Becomes(s)
    /\ ret' = [Call(op, 0, 0, <<name>>, <<>>, <<>>, <<>>, s.error) EXCEPT !.code_arg = code_arg]
    /\ UNCHANGED <<version, trkVars, svVars, ssVars, asmVars, origin_code, resume_counter,
                   finalized, fc_pc>>

GenLoadCall ==
    \E name \in LoadStoreNames :
        LoadStoreCall(GenLoad(Self, name), "gen_load", name, <<>>)

GenStoreCall ==
    \E name \in LoadStoreNames, c \in LoadStoreCodes :
        LoadStoreCall(GenStore(Self, name, c), "gen_store", name, <<Tables(c)>>)

LoadStoreInit == Fresh(LoadStoreCodes, {FALSE}) /\ TrackerIdle /\ SvarintIdle

LoadStoreNext == GenLoadCall \/ GenStoreCall

Spec_loadstore == LoadStoreInit /\ [][LoadStoreNext]_vars

\* C18: gen_load(name) asks the facade's tables and gen_store(name, code) the
\* tables of code. With the name in none of co_cellvars, co_varnames, co_names
\* the call raises InnerError and leaves instructions and tables as they were;
\* otherwise it appends exactly one instruction for the name: the deref one when
\* co_cellvars has the name, else the fast one when co_varnames has it, else
\* the global one.
C18_LoadStoreDispatch ==
    [][(/\ ret'.calls = ret.calls + 1
        /\ ret'.op \in {"gen_load", "gen_store"})
       => LET name == ret'.inputs_arg[1]
              tables == IF ret'.op = "gen_load" THEN Tables(code_options)
                        ELSE ret'.code_arg[1]
              role == IF InSeq(name, tables.co_cellvars) THEN "DEREF"
                      ELSE IF InSeq(name, tables.co_varnames) THEN "FAST"
                      ELSE IF InSeq(name, tables.co_names) THEN "GLOBAL"
                      ELSE "none"
              expected == IF ret'.op = "gen_load"
                          THEN [DEREF |-> "LOAD_DEREF", FAST |-> "LOAD_FAST",
                                GLOBAL |-> "LOAD_GLOBAL"]
                          ELSE [DEREF |-> "STORE_DEREF", FAST |-> "STORE_FAST",
                                GLOBAL |-> "STORE_GLOBAL"]
          IN  IF role = "none"
              THEN /\ ret'.error = "InnerError"
                   /\ instructions' = instructions
                   /\ code_options' = code_options
              ELSE /\ ret'.error = NoVal
                   /\ Len(instructions') = Len(instructions) + 1
                   /\ SubSeq(instructions', 1, Len(instructions)) = instructions
                   /\ Last(instructions').opname = expected[role]
                   /\ Last(instructions').argval = name]_vars

\* C18 witness: gen_store of a name that the passed code has both as a cell
\* and as a local emitted STORE_DEREF, after a gen_load that raised
C18_Witness ==
    /\ ret.op = "gen_store"
    /\ ret.calls = 2
    /\ ret.inputs_arg = <<"x">>
    /\ InSeq("x", ret.code_arg[1].co_cellvars)
    /\ InSeq("x", ret.code_arg[1].co_varnames)
    /\ Last(instructions).opname = "STORE_DEREF"
    /\ Len(instructions) = IF version >= 311 THEN 2 ELSE 1

\* ======================================================== assemble: the bytes
\* the cache entries of an instruction on revision v
CacheEntries(v, instr) == IF v >= 311 THEN CacheSize(instr.opname) ELSE 0

\* opcode byte, operand byte, two zero bytes per cache entry, for the
\* instructions a..b
RECURSIVE StreamOfRange(_, _, _, _)
StreamOfRange(v, instrs, a, b) ==
    IF a > b THEN <<>>
    ELSE IF a = b
    THEN <<Opcode(instrs[a].opname),
           IF instrs[a].arg = NoArg THEN 0 ELSE instrs[a].arg % 256>>
         \o [k \in 1..(2 * CacheEntries(v, instrs[a])) |-> 0]
    ELSE StreamOfRange(v, instrs, a, (a + b) \div 2)
         \o StreamOfRange(v, instrs, (a + b) \div 2 + 1, b)

\* the same for the first n instructions
StreamOf(v, instrs, n) == StreamOfRange(v, instrs, 1, n)

\* the sum of 2 * (1 + cache_size) over the instructions a..b
RECURSIVE SizeSumRange(_, _, _, _)
SizeSumRange(v, instrs, a, b) ==
    IF a > b THEN 0
    ELSE IF a = b THEN 2 * (1 + CacheEntries(v, instrs[a]))
    ELSE SizeSumRange(v, instrs, a, (a + b) \div 2)
         + SizeSumRange(v, instrs, (a + b) \div 2 + 1, b)

\* the same for the first n instructions
SizeSum(v, instrs, n) == SizeSumRange(v, instrs, 1, n)

\* the instructions among the first n for which the line-table calculator was
\* called
Encoded(v, instrs, n) == {k \in 1..n : instrs[k].starts_line # NoLine \/ v >= 311}

\* C19: the bytes assemble has emitted are, instruction by instruction, the
\* opcode, the operand's low byte (0 without operand) and two zero bytes per
\* cache entry (entries on 3.11 only); their number is the sum of the sizes,
\* and the offset last handed to the line-table calculator is the sum of the
\* sizes of the instructions before the one it was called for.
C19_ByteStream ==
    asm_pc \in {"loop", "done"}
    => LET done == asm_i - 1
           called == Encoded(version, asm_instructions, done)
       IN  /\ code = StreamOf(version, asm_instructions, done)
           /\ Len(code) = SizeSum(version, asm_instructions, done)
           /\ cur_bytecode = IF called = {} THEN 0
                             ELSE SizeSum(version, asm_instructions, SetMax(called) - 1)

\* C19 witness: on 3.11 assemble returned the bytes of a LOAD_METHOD with an
\* operand above 255 and ten cache entries, followed by a marked NOP
C19_Witness ==
    /\ asm_pc = "done"
    /\ version >= 311
    /\ Len(asm_instructions) = 2
    /\ asm_instructions[1].opname = "LOAD_METHOD"
    /\ asm_instructions[2].opname = "NOP"
    /\ Len(code) = 24
    /\ code[2] = 44
    /\ cur_bytecode = 22

\* C20: on 3.8 / 3.9, when every instruction that carries starts_line carries
\* firstlineno, assemble returns an empty line table.
C20_SingleLineEmpty ==
    (/\ asm_pc = "done"
     /\ version < 310
     /\ \A i \in 1..Len(asm_instructions) :
            asm_instructions[i].starts_line \in {NoLine, firstlineno})
    => linetable = <<>>

\* -------------------------------------------------- calc_lnotab: the pairs
\* the sum of the byte deltas / of the signed line deltas of a list of pairs
RECURSIVE ByteDeltaSum(_)
ByteDeltaSum(pairs) ==
    IF pairs = <<>> THEN 0 ELSE pairs[1] + ByteDeltaSum(Tail(Tail(pairs)))

RECURSIVE LineDeltaSum(_)
LineDeltaSum(pairs) ==
    IF pairs = <<>> THEN 0 ELSE Signed(pairs[2]) + LineDeltaSum(Tail(Tail(pairs)))

\* what the iteration being taken appends to the table
Emitted == SubSeq(linetable', Len(linetable) + 1, Len(linetable'))

\* C22: oldest format: every pair one call of calc_lnotab emits has a byte
\* delta in 0..255 and a line delta stored as one unsigned byte, no pair is
\* (0, 0), the byte deltas of the call add up to the byte distance from the
\* previous marked instruction and its signed line deltas to the line distance
\* from the previous line.
C22_LnotabPairs ==
    [][(/\ version < 310
        /\ asm_pc = "loop"
        /\ asm_i <= Len(asm_instructions)
        /\ asm_instructions[asm_i].starts_line # NoLine)
       => /\ Len(linetable') >= Len(linetable)
          /\ SubSeq(linetable', 1, Len(linetable)) = linetable
          /\ Len(Emitted) % 2 = 0
          /\ \A k \in 1..(Len(Emitted) \div 2) :
                /\ Emitted[2 * k - 1] \in 0..255
                /\ Emitted[2 * k] \in 0..255
                /\ Signed(Emitted[2 * k]) \in -128..127
                /\ ~(Emitted[2 * k - 1] = 0 /\ Emitted[2 * k] = 0)
          /\ ByteDeltaSum(Emitted) = Len(code) - cur_bytecode
          /\ LineDeltaSum(Emitted)
               = asm_instructions[asm_i].starts_line - cur_lineno]_vars

\* C22 witness: a finished table of the oldest format in which one transition
\* took more than one pair: a pair with the largest byte delta and a line
\* delta at the end of its range, followed by the pair carrying the rest.
C22_Witness ==
    /\ version < 310
    /\ asm_pc = "done"
    /\ \E k \in 1..Len(linetable) :
          /\ k % 2 = 1
          /\ k + 3 <= Len(linetable)
          /\ linetable[k] = 255
          /\ linetable[k + 1] \in {127, 128}
          /\ linetable[k + 2] > 0
          /\ linetable[k + 3] # 0

\* ------------------------------------- calc_linetable_py311: the entries
\* the entries of a 3.11 table from table[k] on, as records [head, start,
\* length]: start is the first code unit the entry covers, which is the unit
\* after the previous entry
RECURSIVE Py311Entries(_, _, _)
Py311Entries(table, k, start) ==
    IF k > Len(table) THEN <<>>
    ELSE LET length == (table[k] % 8) + 1
         IN  <<[head |-> table[k], start |-> start, length |-> length]>>
             \o Py311Entries(table, VarintAt(table, k + 1).next, start + length)

\* the code units of instruction i
UnitsOf(v, instrs, i) ==
    LET first == AsmOffset(v, instrs, i) \div 2
    IN  first..(first + GetInstructionSize(v, instrs[i]) \div 2 - 1)

\* the code units entry e covers
Covered(e) == e.start..(e.start + e.length - 1)

\* the entries tile the stream: each is a short-form entry of 1..8 code units
\* and together, one after the other, they reach the end of the stream
Tiled(entries) ==
    /\ \A k \in 1..Len(entries) :
          entries[k].head \in 232..239 /\ entries[k].length \in 1..8
    /\ entries # <<>>
    /\ entries[Len(entries)].start + entries[Len(entries)].length = Len(code) \div 2

\* the entries that hold a code unit of instruction i
EntriesOf(entries, i) ==
    {k \in 1..Len(entries) :
        Covered(entries[k]) \cap UnitsOf(version, asm_instructions, i) # {}}

\* C23 as stated: for every non-empty list (here: of up to MaxAsmLen
\* instructions) the entries tile the code units and every instruction, the
\* ones of more than 8 code units included, lies in exactly one entry.
C23_OneEntryEach ==
    (version >= 311 /\ asm_pc = "done" /\ asm_instructions \in ShortLists \ {<<>>})
        => \A es \in {Py311Entries(linetable, 1, 0)} :
              /\ Tiled(es)
              /\ \A i \in 1..Len(asm_instructions) :
                    Cardinality(EntriesOf(es, i)) = 1

\* C23 amended: for every non-empty list (here: of up to MaxAsmLen
\* instructions) the entries tile the code units; no entry holds code units of
\* two instructions; an instruction of at most 8 code units lies in exactly
\* one entry, a longer one in consecutive entries of 8 code units and a last
\* one with the rest.
C23_EntriesCover ==
    (version >= 311 /\ asm_pc = "done" /\ asm_instructions \in ShortLists \ {<<>>})
        => \A es \in {Py311Entries(linetable, 1, 0)} :
              /\ Tiled(es)
              /\ \A k \in 1..Len(es) :
                    \E i \in 1..Len(asm_instructions) :
                        Covered(es[k]) \subseteq UnitsOf(version, asm_instructions, i)
              /\ \A i \in 1..Len(asm_instructions) :
                    LET units == Cardinality(UnitsOf(version, asm_instructions, i))
                        mine == EntriesOf(es, i)
                    IN  /\ Cardinality(mine) = (units + 7) \div 8
                        /\ \A k \in mine :
                              es[k].length = 8 \/ k = SetMax(mine)

\* C23 witness: a finished table of the newest format for a list that holds
\* an instruction of more than 8 code units and one after it.
C23_Witness ==
    /\ version >= 311
    /\ asm_pc = "done"
    /\ Len(asm_instructions) <= MaxAsmLen
    /\ \E i \in 1..Len(asm_instructions) :
          /\ i < Len(asm_instructions)
          /\ GetInstructionSize(version, asm_instructions[i]) \div 2 > 8
          /\ Cardinality(EntriesOf(Py311Entries(linetable, 1, 0), i)) = 2

\* --------------------------------------------------------- _encode_svarint
MaxSvarint == 2100   \* the arguments are -MaxSvarint..MaxSvarint

\* list(_encode_svarint(num))
EncodeSvarintCall ==
    /\ svarint_bytes = <<>>
    /\ svarint_num \in -MaxSvarint..MaxSvarint
    /\ asm_pc = "idle" /\ ss_pc = "idle" /\ fc_pc = "idle"
    /\ svarint_bytes' = EncodeSvarint(svarint_num)
    /\ UNCHANGED <<version, svarint_num, ssVars, asmVars, facVars, trkVars>>

SvarintInit ==
    /\ version = 311
    /\ svarint_num \in -MaxSvarint..MaxSvarint
    /\ svarint_bytes = <<>>
    /\ StackIdle
    /\ AsmIdle
    /\ FacadeIdle
    /\ TrackerIdle

SvarintNext == EncodeSvarintCall

Spec_svarint == SvarintInit /\ [][SvarintNext]_vars

\* the number in the low 6 bits of each byte, least significant byte first
RECURSIVE SixBitValue(_)
SixBitValue(bytes) ==
    IF bytes = <<>> THEN 0 ELSE (bytes[1] % 64) + 64 * SixBitValue(Tail(bytes))

\* low bit = sign, the remaining bits = magnitude
ZigZagValue(u) == IF u % 2 = 1 THEN -(u \div 2) ELSE u \div 2

\* C24: every byte _encode_svarint(n) yields is below 0x80, bit 0x40 is set
\* on every byte but the last and clear on the last, and the 6-bit groups read
\* least significant first, low bit as sign and the rest as magnitude, give n.
C24_SvarintRoundTrip ==
    svarint_bytes # <<>>
        => /\ \A k \in 1..Len(svarint_bytes) :
                 /\ svarint_bytes[k] \in 0..127
                 /\ ((svarint_bytes[k] \div 64) % 2 = 1) <=> (k < Len(svarint_bytes))
           /\ ZigZagValue(SixBitValue(svarint_bytes)) = svarint_num

\* C24 witness: a negative number encoded in three bytes.
C24_Witness ==
    /\ svarint_num < 0
    /\ Len(svarint_bytes) = 3

\* =========================================================== gen_load_object
MaxObjectCalls == 2

\* the objects handed to gen_load_object and the names they are given: dbg1 is
\* not bound in the frame's globals, g is
LoadedObjects == {"fn_a", "fn_b"}
ObjectNames == {"dbg1", "g"}

\* gen_dbg_function(dbg_fun)
GenDbgFunction(self, dbg_fun) ==
    GenPopTop(
      GenCallFunction(
        GenLoadFast(
          GenLoadObject(
            GenPopTop(
              GenCallFunction(
                GenLoadObject(
                  GenStoreFast(
                    GenCallFunction(
                      GenLoadConst(
                        GenLoadObject(self, "set_eval_frame", "dbg_set_eval_frame"),
                        "None"),
                      1),
                    "old_eval_frame"),
                  dbg_fun, "dbg1"),
                0)),
            "set_eval_frame", "dbg_set_eval_frame"),
          "old_eval_frame"),
        1))

\* a call that loads obj under obj_name; the record keeps both in inputs_arg
ObjectCall(s, op, obj, obj_name) ==
    /\ fc_pc = "accumulating"
    /\ ret.calls < MaxObjectCalls
    /\ Becomes(s)
    /\ ret' = Call(op, 0, 0, <<obj, obj_name>>, <<>>, <<>>, <<>>, NoVal)
    /\ UNCHANGED <<version, trkVars, svVars, ssVars, asmVars, origin_code, resume_counter,
                   finalized, fc_pc>>

GenLoadObjectCall ==
    \E obj \in LoadedObjects, obj_name \in ObjectNames :
        ObjectCall(GenLoadObject(Self, obj, obj_name), "gen_load_object", obj, obj_name)

GenDbgFunctionCall ==
    \E dbg_fun \in LoadedObjects :
        ObjectCall(GenDbgFunction(Self, dbg_fun), "gen_dbg_function", dbg_fun, "dbg1")

ObjectInit == Fresh(NameCodes, BOOLEAN) /\ TrackerIdle /\ SvarintIdle

ObjectNext == GenLoadObjectCall \/ GenDbgFunctionCall

Spec_objects == ObjectInit /\ [][ObjectNext]_vars

\* C29: after a gen_load_object(obj, name) call (made directly or by
\* gen_dbg_function) the global environment binds name to obj, the object of
\* the most recent call with that name, also when the name was bound before.
C29_LatestBinding ==
    ret.op \in {"gen_load_object", "gen_dbg_function"}
        => /\ ret.inputs_arg[2] \in DOMAIN f_globals
           /\ f_globals[ret.inputs_arg[2]] = ret.inputs_arg[1]

\* ================================================================= gen_rot_n
MaxRot == 6        \* largest n given to gen_rot_n
MaxRotCalls == 2   \* gen_rot_n calls on one facade

\* the function objects rot_n_fn(n) returns: a new object at every call, the
\* k-th one made for a facade is RotFnObject(n, k)
RotFnObject(n, k) ==
    <<<<"rot_5_fn#0", "rot_5_fn#1", "rot_5_fn#2", "rot_5_fn#3">>,
      <<"rot_6_fn#0", "rot_6_fn#1", "rot_6_fn#2", "rot_6_fn#3">>,
      <<"rot_7_fn#0", "rot_7_fn#1", "rot_7_fn#2", "rot_7_fn#3">>,
      <<"rot_8_fn#0", "rot_8_fn#1", "rot_8_fn#2", "rot_8_fn#3">>>>[n - 4][k + 1]

RotFnObjects == {RotFnObject(n, k) : n \in 5..8, k \in 0..3}

\* a list reversed
Reversed(s) == [k \in 1..Len(s) |-> s[Len(s) + 1 - k]]

\* the function rot_n_fn(n) evaluates: lambda var0, .., var{n-1}:
\* (reversed(vars[-1:] + vars[:-1])), applied to args
RotNFn(n, args) == Reversed(<<args[n]>> \o SubSeq(args, 1, n - 1))

\* gen_unpack_sequence(count)
GenUnpackSequence(self, count) == AddInstr(self, "UNPACK_SEQUENCE", count, NoVal)

\* variant: the SWAPs in ascending order
RECURSIVE SwapsUpFrom(_, _)
SwapsUpFrom(self, i) ==
    IF i <= 1 THEN self ELSE AddInstr(SwapsUpFrom(self, i - 1), "SWAP", i, NoVal)

\* `for i in range(n, 1, -1): self._add_instr("SWAP", arg=i)`
RECURSIVE SwapsFrom(_, _)
SwapsFrom(self, i) ==
    IF i <= 1 THEN self ELSE SwapsFrom(AddInstr(self, "SWAP", i, NoVal), i - 1)

\* gen_rot_n(n)
RECURSIVE GenRotN(_, _)
GenRotN(self, n) ==
    IF n <= 1 THEN self
    ELSE IF version < 310
    THEN IF n <= 4
         THEN AddInstr(self, <<"ROT_TWO", "ROT_THREE", "ROT_FOUR">>[n - 1], NoArg, NoVal)
         ELSE LET made == Cardinality({k \in 1..Len(self.code_options.co_consts) :
                                          self.code_options.co_consts[k] \in RotFnObjects})
              IN  GenUnpackSequence(
                      AddInstr(
                          GenRotN(GenLoadConst(GenBuildTuple(self, n), RotFnObject(n, made)), 2),
                          "CALL_FUNCTION_EX", 0, NoVal),
                      n)
    ELSE IF version < 311
    THEN AddInstr(self, "ROT_N", n, NoVal)
    ELSE SwapsFrom(self, n)

GenRotNCall ==
    \E n \in 0..MaxRot : AccumulateArg(GenRotN(Self, n), "gen_rot_n", n, MaxRotCalls)

RotInit ==
    /\ version \in Versions
    /\ StackIdle
    /\ AsmIdle
    /\ TrackerIdle
    /\ SvarintIdle
    /\ resume_counter = 0
    /\ \E c \in NameCodes, disable_eval_frame \in BOOLEAN :
         /\ origin_code = c
         /\ \E s \in {NewPyCodeGen(c, disable_eval_frame, FALSE)} :
              /\ code_options = s.code_options
              /\ instructions = s.instructions
              /\ f_globals = s.f_globals
              /\ next_id = s.next_id
    /\ finalized = FALSE
    /\ ret = Constructed
    /\ fc_pc = "accumulating"

RotNext == GenRotNCall

Spec_rot == RotInit /\ [][RotNext]_vars

\* ---- running the appended instructions
\* the interpreter's step for the instructions gen_rot_n emits, on a value
\* stack whose top is its last element; a tuple is a list, a function object
\* made by rot_n_fn is called by its name
ExecuteOne(instr, st) ==
    LET d == Len(st)
        n == instr.arg
    IN  CASE instr.opname = "ROT_TWO" ->
               SubSeq(st, 1, d - 2) \o <<st[d], st[d - 1]>>
          [] instr.opname = "ROT_THREE" ->
               SubSeq(st, 1, d - 3) \o <<st[d], st[d - 2], st[d - 1]>>
          [] instr.opname = "ROT_FOUR" ->
               SubSeq(st, 1, d - 4) \o <<st[d], st[d - 3], st[d - 2], st[d - 1]>>
          [] instr.opname = "ROT_N" ->
               SubSeq(st, 1, d - n) \o <<st[d]>> \o SubSeq(st, d - n + 1, d - 1)
          [] instr.opname = "SWAP" ->
               [k \in 1..d |-> IF k = d THEN st[d - n + 1]
                               ELSE IF k = d - n + 1 THEN st[d] ELSE st[k]]
          [] instr.opname = "BUILD_TUPLE" ->
               SubSeq(st, 1, d - n) \o <<SubSeq(st, d - n + 1, d)>>
          [] instr.opname = "LOAD_CONST" -> Append(st, instr.argval)
          [] instr.opname = "CALL_FUNCTION_EX" ->
               SubSeq(st, 1, d - 2)
               \o <<RotNFn(CHOOSE a \in 5..8 : \E k \in 0..3 : RotFnObject(a, k) = st[d - 1],
                           st[d])>>
          [] instr.opname = "UNPACK_SEQUENCE" ->
               SubSeq(st, 1, d - 1) \o Reversed(st[d])

RECURSIVE Execute(_, _)
Execute(instrs, st) ==
    IF instrs = <<>> THEN st ELSE Execute(Tail(instrs), ExecuteOne(Head(instrs), st))

StackValue(k) == <<"v1", "v2", "v3", "v4", "v5", "v6", "v7", "v8">>[k]

\* the stack [below, v1, .., vn] and the stack [below, vn, v1, .., v(n-1)]
StackBefore(n) == <<"below">> \o [k \in 1..n |-> StackValue(k)]
StackAfter(n) == <<"below", StackValue(n)>> \o [k \in 1..(n - 1) |-> StackValue(k)]

\* C30: on each of the three revisions, a gen_rot_n(n) call with n <= 1
\* appends nothing, and for n >= 2 the instructions it appends, run on a stack
\* [.., v1, .., vn] (vn on top), leave [.., vn, v1, .., v(n-1)].
C30_RotN ==
    [][(/\ fc_pc = "accumulating"
        /\ ret'.op = "gen_rot_n"
        /\ ret'.calls = ret.calls + 1)
       => LET n == ret'.index
              old == Len(instructions)
              appended == SubSeq(instructions', old + 1, Len(instructions'))
          IN  /\ Len(instructions') >= old
              /\ SubSeq(instructions', 1, old) = instructions
              /\ IF n <= 1 THEN appended = <<>>
                 ELSE /\ appended # <<>>
                      /\ Execute(appended, StackBefore(n)) = StackAfter(n)]_vars

\* C30 witness: on the oldest revision gen_rot_n was called with n > 4 and
\* took the tuple-and-call fallback.
C30_Witness ==
    /\ version < 310
    /\ ret.op = "gen_rot_n"
    /\ ret.index > 4
    /\ instructions # <<>>
    /\ instructions[Len(instructions)].opname = "UNPACK_SEQUENCE"
    /\ instructions[Len(instructions)].arg = ret.index

=============================================================================
